---- MODULE Spec2Model ----
(***************************************************************************)
(* Verification model of superbook-pdf.                                    *)
(*                                                                         *)
(* The module holds several independent state machines, one per component  *)
(* of the program, over disjoint groups of variables:                      *)
(*   SpecConvert     the CLI convert run        (src/main.rs)              *)
(*   SpecOffset      the page-offset analyser   (page_number/offset.rs)    *)
(*   SpecOffsetScan  the shift scan, free input (page_number/offset.rs)    *)
(*   SpecInterpolate offset interpolation       (page_number/offset.rs)    *)
(*   SpecMissing     find_missing_pages         (page_number/detect.rs)    *)
(*   SpecRoman       parse_roman_numeral        (page_number/detect.rs)    *)
(*   SpecGroup       the group crop analyser    (margin/group.rs)          *)
(*   SpecPool        the web worker pool        (web/worker.rs)            *)
(*   SpecShutdown    graceful_shutdown          (web/shutdown.rs)          *)
(*   SpecRecovery    recovery on startup        (web/persistence.rs)       *)
(*   SpecStore       the JSON job store         (web/persistence.rs)       *)
(*   SpecDeblur      the deblur stage           (cleanup/deblur.rs)        *)
(*   SpecMarker      marker removal             (cleanup/marker_removal.rs)*)
(*   SpecVertical    vertical writing detection (vertical_detect.rs)       *)
(*   SpecBatch       batch cancellation         (web/batch.rs)             *)
(*   SpecMetrics     the metrics collector      (web/metrics.rs)           *)
(*   SpecJobWorker   process_job and cancel_job (web/worker.rs)            *)
(*   SpecCoordinator the shutdown coordinator   (web/shutdown.rs)          *)
(*   SpecShadow      shadow detection           (margin/shadow.rs)         *)
(* Each specification leaves the variables of the other components at      *)
(* their initial values.                                                   *)
(***************************************************************************)
EXTENDS Integers, Sequences, FiniteSets, TLC

VARIABLES
    \* ---- convert run (main.rs) ----
    cpc,            \* position in run_convert: "start", "loop", "exited"
    args,           \* ConvertArgs: force, skip_existing, dry_run
    input_exists,   \* args.input.exists() as observed at line 92
    collected,      \* result of collect_pdf_files: "unread", "err" or "ok"
    dir_created,    \* result of create_dir_all(&args.output): "untried", "ok", "err"
    pdf_files,      \* number of books in the list built by collect_pdf_files
    books,          \* one record per book the loop has attempted, in list order
    ok_count,
    skip_count,
    error_count,
    exit_status,    \* <<>> while running, <<code>> once the process has exited
    \* ---- page offset analyser (page_number/offset.rs) ----
    opc,            \* "input" while the detection list is built, "analyzed" after
    detections,     \* &[DetectedPageNumber] handed to analyze_offsets
    best,           \* (best_shift, match_count, score) of find_best_page_number_shift
    analysis,       \* BookOffsetAnalysis returned by analyze_offsets
    interp_pages,   \* argument of interpolate_missing_offsets, 0 before the call
    \* ---- page number detector (page_number/detect.rs) ----
    dpc,            \* "input", then "reported" or "parsed"
    numbers,        \* &[i32] handed to find_missing_pages
    missing_pages,  \* Vec<usize> returned by find_missing_pages
    roman_n,        \* the number whose numeral roman_text is, 0 for any other text
    roman_text,     \* &str handed to parse_roman_numeral, as a sequence of characters
    roman_locals,   \* locals `result` and `remaining` when the loop of parse_roman_numeral ends
    roman_parsed,   \* Option<i32> returned by parse_roman_numeral
    \* ---- deblur stage (cleanup/deblur.rs) ----
    bpc,            \* "input", then "done"
    blur_image,     \* the RgbImage handed to the stage (the file content for `process`)
    blur_original,  \* the image as it was handed over
    blur_exists,    \* image_path.exists()
    blur_options,   \* DeblurOptions
    blur_output,    \* Option: the image saved at output_path
    blur_result,    \* Option: the DeblurResult returned, or the error
    \* ---- marker removal (cleanup/marker_removal.rs) ----
    mpc,             \* "input", then "done"
    marker_image,    \* the RgbImage handed to remove_in_place
    marker_original, \* the image as it was handed over
    marker_options,  \* MarkerRemovalOptions
    marker_edges,    \* Option: the edge map computed from the image
    marker_counted,  \* the pixels counted as marker pixels, by index
    marker_result,   \* Option: the MarkerDetectionResult returned
    \* ---- vertical writing detector (vertical_detect.rs) ----
    vpc,             \* "input" until both detections have returned, then "done"
    vd_image,        \* the GrayImage I
    vd_options,      \* VerticalDetectOptions
    vd_result,       \* Option: detect_vertical_probability(I)
    vd_rot_result,   \* Option: detect_vertical_probability(rotate_90_clockwise(I))
    \* ---- group crop analyser (margin/group.rs) ----
    gpc,            \* "input" while the box list is built, "decided" after
    bounding_boxes, \* &[PageBoundingBox] handed to decide_group_crop_region
    selection,      \* locals of decide_group_crop_region: valid, inliers, use_inliers
    region,         \* GroupCropRegion returned by decide_group_crop_region
    \* ---- worker pool (web/worker.rs) ----
    worker_count,   \* argument of WorkerPool::new
    channel,        \* messages buffered in the mpsc channel, oldest first
    sender_alive,   \* the pool (the only Sender) has not been dropped
    rx_lock,        \* worker holding the Mutex around the Receiver, 0 if free
    worker_pc,      \* per worker task: "waiting", "receiving", "processing", "exited"
    worker_job,     \* per worker task: job being processed, 0 if none
    next_job_id,    \* id the next submitted job gets
    last_submit,    \* result of the latest submit: "none", "ok", "err"
    finished_jobs,  \* jobs whose process_job has returned
    shutdown_calls, \* number of calls of WorkerPool::shutdown so far
    \* ---- graceful shutdown (web/shutdown.rs) ----
    sd_pc,          \* "start", "sleep" (inside the polling loop), "returned"
    config,         \* ShutdownConfig: timeout_secs, wait_for_jobs
    elapsed,        \* start.elapsed(), in units of 100 ms
    pending,        \* latest value of pending_job_count().await; <<>> before the first poll
    result,         \* ShutdownResult returned; <<>> while running
    \* ---- job store and recovery (web/persistence.rs) ----
    store_cache,    \* JsonJobStore.cache: job id -> Job
    dirty,          \* JsonJobStore.dirty
    file_jobs,      \* the job map last read from or written to the JSON file
    cache_writer,   \* thread holding cache.write(), 0 if none
    cache_readers,  \* threads holding cache.read()
    thread_pc,      \* per thread: position inside the store method it is running
    thread_removed, \* per thread: the local `removed` of cleanup
    job_queue,      \* JobQueue: job id -> Job
    next_uuid,      \* stands for the fresh Uuid of the next Job::new
    max_retries,    \* argument of retry_failed
    requeues,       \* per input file: number of retry jobs submitted for it so far
    recovery,       \* RecoveryResult of recover_on_startup; <<>> before it returns
    \* ---- batch queue (web/batch.rs) ----
    bq_pc,         \* position in BatchQueue::cancel: "input", "loop", "returned"
    bq_batch,      \* Option: the BatchJob stored under batch_id in `batches`
    bq_jobs,       \* the JobQueue: job id -> status of the job
    bq_entry,      \* bq_jobs as it was when cancel was called
    bq_index,      \* position of the for loop in batch.job_ids
    bq_cancelled,  \* local `cancelled`
    bq_completed,  \* local `completed`
    bq_result,      \* Option<(usize, usize)> returned by cancel
    \* ---- metrics collector (web/metrics.rs) ----
    mt_counters,  \* the AtomicU64 fields of MetricsCollector
    mt_threads,   \* per thread: the call it is in, the atomic operations left, whether its job is started
    mt_calls,      \* number of calls that have returned, per method
    \* ---- job worker and cancellation (web/worker.rs, web/routes.rs) ----
    jw_jobs,       \* JobQueue: job id -> JobStatus
    jw_channel,    \* Process messages (job ids) waiting for the worker
    jw_pc,         \* where the worker is: recv, started (after job.start), pipeline
    jw_job,        \* Option: the job the worker is processing
    jw_cancelled,   \* job ids for which cancel_job returned the job Cancelled
    \* ---- shutdown coordinator (web/shutdown.rs) ----
    sc_is_shutting_down,  \* the AtomicBool shared by the coordinator and its clones
    sc_values,            \* the signals the broadcast channel has stored, oldest first
    sc_waiters,           \* per task calling wait_for_shutdown: pc, next position of its Receiver, signal returned
    sc_triggers,           \* number of trigger_shutdown / trigger_immediate calls made
    \* ---- shadow detection (margin/shadow.rs) ----
    sh_pc,            \* input, profile (inside the sampling loops), returned, panicked
    sh_image,         \* [width, height] of the RgbImage
    sh_edge,          \* the Edge being checked
    sh_sample_width,  \* sample_width computed by detect_edge_shadow
    sh_i,             \* loop variable i of calculate_brightness_profile
    sh_row_idx,       \* loop variable row_idx
    sh_sample         \* Option: the latest pixel coordinates read, or what stopped the read

convVars == <<cpc, args, input_exists, collected, dir_created, pdf_files,
              books, ok_count, skip_count, error_count, exit_status>>

offVars == <<opc, detections, best, analysis, interp_pages>>

grpVars == <<gpc, bounding_boxes, selection, region>>

poolVars == <<worker_count, channel, sender_alive, rx_lock, worker_pc, worker_job,
              next_job_id, last_submit, finished_jobs, shutdown_calls>>

sdVars == <<sd_pc, config, elapsed, pending, result>>

storeVars == <<store_cache, dirty, file_jobs, cache_writer, cache_readers,
               thread_pc, thread_removed>>

recVars == <<job_queue, next_uuid, max_retries, requeues, recovery>>

detVars == <<dpc, numbers, missing_pages, roman_n, roman_text, roman_locals, roman_parsed>>

blurVars == <<bpc, blur_image, blur_original, blur_exists, blur_options, blur_output, blur_result>>

mrkVars == <<mpc, marker_image, marker_original, marker_options, marker_edges,
             marker_counted, marker_result>>

vdVars == <<vpc, vd_image, vd_options, vd_result, vd_rot_result>>

batchVars == <<bq_pc, bq_batch, bq_jobs, bq_entry, bq_index, bq_cancelled, bq_completed, bq_result>>

metVars == <<mt_counters, mt_threads, mt_calls>>

jobWorkerVars == <<jw_jobs, jw_channel, jw_pc, jw_job, jw_cancelled>>

coordVars == <<sc_is_shutting_down, sc_values, sc_waiters, sc_triggers>>

shadowVars == <<sh_pc, sh_image, sh_edge, sh_sample_width, sh_i, sh_row_idx, sh_sample>>

vars == <<convVars, offVars, grpVars, poolVars, sdVars, storeVars, recVars, detVars, blurVars,
          mrkVars, vdVars,
          batchVars,
          metVars,
          jobWorkerVars,
          coordVars,
          shadowVars>>

\* What an action of one component leaves alone: the other components
exceptConv == <<offVars, grpVars, poolVars, sdVars, storeVars, recVars, detVars, blurVars, mrkVars, vdVars, batchVars, metVars, jobWorkerVars, coordVars, shadowVars>>

exceptOff == <<convVars, grpVars, poolVars, sdVars, storeVars, recVars, detVars, blurVars, mrkVars, vdVars, batchVars, metVars, jobWorkerVars, coordVars, shadowVars>>

exceptGrp == <<convVars, offVars, poolVars, sdVars, storeVars, recVars, detVars, blurVars, mrkVars, vdVars, batchVars, metVars, jobWorkerVars, coordVars, shadowVars>>

exceptPool == <<convVars, offVars, grpVars, sdVars, storeVars, recVars, detVars, blurVars, mrkVars, vdVars, batchVars, metVars, jobWorkerVars, coordVars, shadowVars>>

exceptSd == <<convVars, offVars, grpVars, poolVars, storeVars, recVars, detVars, blurVars, mrkVars, vdVars, batchVars, metVars, jobWorkerVars, coordVars, shadowVars>>

exceptStoreRec == <<convVars, offVars, grpVars, poolVars, sdVars, detVars, blurVars, mrkVars, vdVars, batchVars, metVars, jobWorkerVars, coordVars, shadowVars>>

exceptDet == <<convVars, offVars, grpVars, poolVars, sdVars, storeVars, recVars, blurVars, mrkVars, vdVars, batchVars, metVars, jobWorkerVars, coordVars, shadowVars>>

exceptBlur == <<convVars, offVars, grpVars, poolVars, sdVars, storeVars, recVars, detVars, mrkVars, vdVars, batchVars, metVars, jobWorkerVars, coordVars, shadowVars>>

exceptMrk == <<convVars, offVars, grpVars, poolVars, sdVars, storeVars, recVars, detVars, blurVars,
              vdVars, batchVars, metVars, jobWorkerVars, coordVars, shadowVars>>

exceptVd == <<convVars, offVars, grpVars, poolVars, sdVars, storeVars, recVars, detVars, blurVars,
             mrkVars, batchVars, metVars, jobWorkerVars, coordVars, shadowVars>>

exceptBatch == <<convVars, offVars, grpVars, poolVars, sdVars, storeVars, recVars, detVars, blurVars, mrkVars, vdVars, metVars, jobWorkerVars, coordVars, shadowVars>>

exceptMet == <<convVars, offVars, grpVars, poolVars, sdVars, storeVars, recVars, detVars, blurVars, mrkVars, vdVars, batchVars, jobWorkerVars, coordVars, shadowVars>>

exceptJobWorker == <<convVars, offVars, grpVars, poolVars, sdVars, storeVars, recVars, detVars, blurVars, mrkVars, vdVars, batchVars, metVars, coordVars, shadowVars>>

exceptCoord == <<convVars, offVars, grpVars, poolVars, sdVars, storeVars, recVars, detVars, blurVars, mrkVars, vdVars, batchVars, metVars, jobWorkerVars, shadowVars>>

exceptShadow == <<convVars, offVars, grpVars, poolVars, sdVars, storeVars, recVars, detVars, blurVars, mrkVars, vdVars, batchVars, metVars, jobWorkerVars, coordVars>>

(***************************************************************************)
(* Bounds                                                                  *)
(***************************************************************************)
MaxBooks == 2
\* sizes of the images given to shadow detection
MaxShadowWidth == 12
MaxShadowHeight == 2
\* tasks calling wait_for_shutdown, and trigger calls
MaxWaiters == 2
MaxTriggers == 2
\* jobs handed to the job worker
MaxWorkerJobs == 3
\* threads recording jobs in the metrics collector, and jobs of each
MaxMetricThreads == 2
MaxJobsPerThread == 2
\* most jobs of the batch that is cancelled
MaxBatchJobs == 3
\* longest detection list built from freely chosen detections
MaxFree == 3
\* longest book (front matter, numbered body, back matter) handed to the analyser
MaxPages == 16
\* number of pages of the books whose missing offsets are interpolated
MaxInterpPages == 7
\* longest list of detected numbers handed to find_missing_pages
MaxNumbers == 4
\* largest detected page number
MaxNumber == 5
\* largest number whose Roman numeral is parsed
MaxRoman == 3999
\* longest text other than a Roman numeral that is parsed
MaxTextLen == 3
\* size of the images handed to the deblur stage
BlurImageWidth == 4
BlurImageHeight == 3
\* most pixels of such an image that differ from the background
MaxBrightPixels == 1
\* size of the images handed to marker removal
MarkerImageWidth == 3
MarkerImageHeight == 3
\* most pixels of such an image that are not white
MaxInkPixels == 2
\* largest width and height of the pages handed to the vertical writing detector
MaxSide == 3
\* most pixels of such a page that differ from the others
MaxDots == 3
\* largest block_count
MaxBlockCount == 2
\* longest list of page bounding boxes handed to the group crop analyser
MaxBoxes == 7
\* largest worker_count a pool is created with
MaxWorkers == 2
\* number of jobs submitted to a pool
MaxJobs == 2
\* number of calls of WorkerPool::shutdown
MaxShutdownCalls == 1
\* largest ShutdownConfig::timeout_secs
MaxTimeoutSecs == 2
\* largest value pending_job_count reports
MaxPending == 2
\* number of jobs in the store when the recovery manager is created
MaxStored == 2
\* number of Job::new calls made on behalf of retries
MaxRetryJobs == 3
\* largest max_retries handed to retry_failed
MaxMaxRetries == 2
\* number of threads sharing one JsonJobStore
MaxThreads == 2
\* number of distinct job ids saved to a JsonJobStore
MaxStoreIds == 2

(***************************************************************************)
(* Page offset analyser: src/superbook-pdf/src/page_number/offset.rs       *)
(*                                                                         *)
(* A DetectedPageNumber is [page_index, number, confidence, position];     *)
(* number is <<>> for None and <<v>> for Some(v).  The OCR confidence is    *)
(* an integer number of percent, so that sums of confidences compare        *)
(* exactly.  A position is [x, y, width, height].                          *)
(***************************************************************************)
MIN_MATCH_COUNT == 5

\* MIN_MATCH_RATIO = 1.0 / 3.0, kept as numerator and denominator
MIN_MATCH_RATIO_NUM == 1
MIN_MATCH_RATIO_DEN == 3

MAX_SHIFT_TEST == 300

Abs(x) == IF x < 0 THEN -x ELSE x

\* PageOffsetResult::no_offset(physical_page)
no_offset(physical_page) ==
    [physical_page |-> physical_page,
     logical_page |-> <<>>,
     shift_x |-> 0,
     shift_y |-> 0,
     is_odd |-> physical_page % 2 = 1]

\* BookOffsetAnalysis::default(); the confidence is the fraction num / den
DefaultAnalysis ==
    [page_number_shift |-> 0,
     page_offsets |-> <<>>,
     odd_avg_x |-> <<>>, even_avg_x |-> <<>>,
     odd_avg_y |-> <<>>, even_avg_y |-> <<>>,
     match_count |-> 0,
     confidence |-> [num |-> 0, den |-> 1]]

\* BookOffsetAnalysis::is_reliable(total_pages)
is_reliable_above_five(a, total_pages) ==
    a.match_count > 5 /\ a.match_count * 3 >= total_pages

is_reliable(a, total_pages) ==
    a.match_count >= 5 /\ a.match_count * 3 >= total_pages

\* `expected_logical >= 1 && det.number == Some(expected_logical)`
Matches(det, shift) ==
    LET physical_page == det.page_index + 1
        expected_logical == physical_page - shift
    IN expected_logical >= 1 /\ det.number = <<expected_logical>>

RECURSIVE SumConfidence(_, _)
SumConfidence(dets, idxs) ==
    IF idxs = {} THEN 0
    ELSE LET i == CHOOSE j \in idxs : TRUE
         IN dets[i].confidence + SumConfidence(dets, idxs \ {i})

\* Inner loop of find_best_page_number_shift: the score (sum of the
\* confidences) and the count of the detections that match one shift.
ScoreOf(dets, shift) ==
    LET matching == {i \in 1..Len(dets) : Matches(dets[i], shift)}
    IN [score |-> SumConfidence(dets, matching), count |-> Cardinality(matching)]

\* The update of (best_score, best_shift, best_count) for one shift.
BetterFirstWins(score, shift, b) ==
    score > b.score

Better(score, shift, b) ==
    score > b.score \/ (score = b.score /\ Abs(shift) < Abs(b.shift))

TryShift(dets, shift, b) ==
    LET r == ScoreOf(dets, shift)
    IN IF Better(r.score, shift, b)
       THEN [shift |-> shift, score |-> r.score, count |-> r.count]
       ELSE b

\* `for shift in -MAX_SHIFT_TEST..MAX_SHIFT_TEST`, shifts lo..hi-1 in ascending
\* order starting from b.  The range is split in halves, the lower half first,
\* which keeps the evaluation depth logarithmic; the order of the visits is
\* that of the loop.
RECURSIVE ScanShifts(_, _, _, _)
ScanShifts(dets, lo, hi, b) ==
    IF lo >= hi THEN b
    ELSE IF hi = lo + 1 THEN TryShift(dets, lo, b)
    ELSE LET mid == (lo + hi) \div 2
             lower == ScanShifts(dets, lo, mid, b)
         IN IF lower.count >= 0
            THEN ScanShifts(dets, mid, hi, lower)
            ELSE lower

\* find_best_page_number_shift without the normalisation of the confidence,
\* which analyze_offsets' caller reads as score / (len * 100).
find_best_page_number_shift(dets) ==
    ScanShifts(dets, -MAX_SHIFT_TEST, MAX_SHIFT_TEST,
               [shift |-> 0, score |-> 0, count |-> 0])

\* `match_count < MIN_MATCH_COUNT || (match_count as f64) < (len as f64 * MIN_MATCH_RATIO)`.
\* For integers m and n, m < n * (1.0 / 3.0) in f64 exactly when 3 * m < n.
AbandonsCountOnly(match_count, n) ==
    match_count < MIN_MATCH_COUNT

Abandons(match_count, n) ==
    \/ match_count < MIN_MATCH_COUNT
    \/ match_count * MIN_MATCH_RATIO_DEN < n * MIN_MATCH_RATIO_NUM

CenterX(rect) == rect.x + rect.width \div 2

CenterY(rect) == rect.y + rect.height \div 2

RECURSIVE SumCenterX(_, _)
SumCenterX(dets, idxs) ==
    IF idxs = {} THEN 0
    ELSE LET i == CHOOSE j \in idxs : TRUE
         IN CenterX(dets[i].position) + SumCenterX(dets, idxs \ {i})

RECURSIVE SumCenterY(_, _)
SumCenterY(dets, idxs) ==
    IF idxs = {} THEN 0
    ELSE LET i == CHOOSE j \in idxs : TRUE
         IN CenterY(dets[i].position) + SumCenterY(dets, idxs \ {i})

\* calculate_average_x over the matched pages idxs of a group
calculate_average_x(dets, idxs) ==
    IF idxs = {} THEN <<>>
    ELSE << SumCenterX(dets, idxs) \div Cardinality(idxs) >>

\* calculate_average_y over the matched pages idxs of a group
calculate_average_y(dets, idxs) ==
    IF idxs = {} THEN <<>>
    ELSE << SumCenterY(dets, idxs) \div Cardinality(idxs) >>

\* align_group_y_values
align_group_y_values(odd_avg_y, even_avg_y) ==
    IF odd_avg_y # <<>> /\ even_avg_y # <<>>
    THEN LET odd_y == odd_avg_y[1]
             even_y == even_avg_y[1]
         IN IF Abs(odd_y - even_y) < 350
            THEN LET avg == (odd_y + even_y) \div 2
                 IN << <<avg>>, <<avg>> >>
            ELSE << odd_avg_y, even_avg_y >>
    ELSE << odd_avg_y, even_avg_y >>

\* calculate_per_page_offsets, one page
PageOffset(det, shift, odd_avg_x, even_avg_x, odd_avg_y, even_avg_y) ==
    LET physical_page == det.page_index + 1
        is_odd == physical_page % 2 = 1
        avg_x == IF is_odd THEN odd_avg_x ELSE even_avg_x
        avg_y == IF is_odd THEN odd_avg_y ELSE even_avg_y
    IN IF Matches(det, shift)
       THEN [physical_page |-> physical_page,
             logical_page |-> <<physical_page - shift>>,
             shift_x |-> IF avg_x = <<>> THEN 0 ELSE avg_x[1] - CenterX(det.position),
             shift_y |-> IF avg_y = <<>> THEN 0 ELSE avg_y[1] - CenterY(det.position),
             is_odd |-> is_odd]
       ELSE no_offset(physical_page)

\* analyze_offsets, given the result b of find_best_page_number_shift
AnalysisFrom(dets, b) ==
    IF dets = <<>> THEN DefaultAnalysis
    ELSE IF Abandons(b.count, Len(dets))
    THEN [DefaultAnalysis EXCEPT
            !.page_offsets = [i \in 1..Len(dets) |-> no_offset(dets[i].page_index + 1)]]
    ELSE LET matched == {i \in 1..Len(dets) : Matches(dets[i], b.shift)}
             odd == {i \in matched : (dets[i].page_index + 1) % 2 = 1}
             even == matched \ odd
             odd_avg_x == calculate_average_x(dets, odd)
             odd_avg_y == calculate_average_y(dets, odd)
             even_avg_x == calculate_average_x(dets, even)
             even_avg_y == calculate_average_y(dets, even)
             aligned == align_group_y_values(odd_avg_y, even_avg_y)
         IN [page_number_shift |-> b.shift,
             page_offsets |-> [i \in 1..Len(dets) |->
                 PageOffset(dets[i], b.shift, odd_avg_x, even_avg_x,
                            aligned[1], aligned[2])],
             odd_avg_x |-> odd_avg_x, even_avg_x |-> even_avg_x,
             odd_avg_y |-> aligned[1], even_avg_y |-> aligned[2],
             match_count |-> b.count,
             confidence |-> [num |-> b.score, den |-> Len(dets) * 100]]

\* ---- inputs ----

\* Position of the page number on a physical page: outside corner of the page
\* (odd pages right, even pages left) with a small page-dependent displacement.
PositionOf(physical_page) ==
    [x |-> (IF physical_page % 2 = 1 THEN 500 ELSE 100) + 4 * (physical_page % 3),
     y |-> 100 + 6 * (physical_page % 4),
     width |-> 50,
     height |-> 20]

Detection(page_index, number, confidence) ==
    [page_index |-> page_index, number |-> number, confidence |-> confidence,
     position |-> PositionOf(page_index + 1)]

\* Numbers a freely chosen detection may carry, as the shift they vote for,
\* and the confidences it may have.
FreeShifts == {-2, 0, 2}

FreeConfidences == {50, 100}

OffsetIdle ==
    /\ opc = "input"
    /\ detections = <<>>
    /\ best = [shift |-> 0, score |-> 0, count |-> 0]
    /\ analysis = DefaultAnalysis
    /\ interp_pages = 0

\* Input: one more detection, for the next page, without a number or with the
\* number physical_page - s.
AddDetection ==
    /\ opc = "input"
    /\ Len(detections) < MaxFree
    /\ \/ detections' = Append(detections, Detection(Len(detections), <<>>, 50))
       \/ \E s \in FreeShifts, c \in FreeConfidences :
            detections' = Append(detections,
                Detection(Len(detections), <<Len(detections) + 1 - s>>, c))
    /\ UNCHANGED <<opc, best, analysis, interp_pages>>
    /\ UNCHANGED exceptOff

HasNumbered(dets) == \E i \in 1..Len(dets) : dets[i].number # <<>>

\* Input: one more page of a book without a detected number (front matter
\* before the numbered body, back matter after it).
AddUnnumberedPage ==
    /\ opc = "input"
    /\ Len(detections) < MaxPages
    /\ detections' = Append(detections, Detection(Len(detections), <<>>, 0))
    /\ UNCHANGED <<opc, best, analysis, interp_pages>>
    /\ UNCHANGED exceptOff

\* Input: one more page of the numbered body of a book.  The first numbered
\* page carries 1 or its physical page number; each following one carries the
\* successor of the number before it.
AddNumberedPage ==
    /\ opc = "input"
    /\ Len(detections) < MaxPages
    /\ IF HasNumbered(detections)
       THEN /\ detections[Len(detections)].number # <<>>
            /\ detections' = Append(detections,
                  Detection(Len(detections),
                            <<detections[Len(detections)].number[1] + 1>>, 90))
       ELSE \E first \in {1, Len(detections) + 1} :
              detections' = Append(detections,
                  Detection(Len(detections), <<first>>, 90))
    /\ UNCHANGED <<opc, best, analysis, interp_pages>>
    /\ UNCHANGED exceptOff

\* PageOffsetAnalyzer::analyze_offsets(&detections, image_height)
Analyze ==
    /\ opc = "input"
    /\ LET b == find_best_page_number_shift(detections)
       IN /\ best' = b
          /\ analysis' = AnalysisFrom(detections, b)
    /\ opc' = "analyzed"
    /\ UNCHANGED <<detections, interp_pages>>
    /\ UNCHANGED exceptOff

\* ---- interpolate_missing_offsets ----

\* page_offsets.sort_by_key(|p| p.physical_page): a stable sort
RECURSIVE InsertByPage(_, _)
InsertByPage(sorted, p) ==
    IF sorted = <<>> THEN <<p>>
    ELSE IF sorted[Len(sorted)].physical_page <= p.physical_page
    THEN Append(sorted, p)
    ELSE Append(InsertByPage(SubSeq(sorted, 1, Len(sorted) - 1), p), sorted[Len(sorted)])

RECURSIVE sort_by_key_from(_, _)
sort_by_key_from(offsets, n) ==
    IF n = 0 THEN <<>>
    ELSE InsertByPage(sort_by_key_from(offsets, n - 1), offsets[n])

sort_by_key_left_out(offsets) == offsets

sort_by_key(offsets) == sort_by_key_from(offsets, Len(offsets))

\* The no-offset entries pushed for the pages of page..total that are not in `existing`
RECURSIVE PushedFrom(_, _, _)
PushedFrom(existing, page, total) ==
    IF page > total THEN <<>>
    ELSE (IF page \in existing THEN <<>> ELSE <<no_offset(page)>>)
         \o PushedFrom(existing, page + 1, total)

\* PageOffsetAnalyzer::interpolate_missing_offsets(&mut analysis, total_pages)
interpolate_missing_offsets(offsets, total) ==
    LET existing == {offsets[i].physical_page : i \in 1..Len(offsets)}
    IN sort_by_key(offsets \o PushedFrom(existing, 1, total))

\* Physical page of the last detection, 0 for an empty list
LastPage(dets) == IF dets = <<>> THEN 0 ELSE dets[Len(dets)].page_index + 1

\* Input: the detection of one more page of the book, in page order.  Pages
\* on which nothing was detected have no entry in the list.
AddDetectedPage ==
    /\ opc = "input"
    /\ \E page \in LastPage(detections) + 1 .. MaxInterpPages :
         \/ detections' = Append(detections, Detection(page - 1, <<>>, 0))
         \/ detections' = Append(detections, Detection(page - 1, <<page>>, 90))
    /\ UNCHANGED <<opc, best, analysis, interp_pages>>
    /\ UNCHANGED exceptOff

\* interpolate_missing_offsets(&mut analysis, total_pages), total_pages being
\* the number of pages of the book
Interpolate ==
    /\ opc = "analyzed"
    /\ \E total \in LastPage(detections)..MaxInterpPages :
         /\ interp_pages' = total
         /\ analysis' = [analysis EXCEPT
                !.page_offsets = interpolate_missing_offsets(analysis.page_offsets, total)]
    /\ opc' = "interpolated"
    /\ UNCHANGED <<detections, best>>
    /\ UNCHANGED exceptOff

(***************************************************************************)
(* Group crop analyser: src/superbook-pdf/src/margin/group.rs              *)
(*                                                                         *)
(* A PageBoundingBox is [page_number, x, y, width, height].  Quartiles are  *)
(* multiples of 1/4 and fences multiples of 1/8 of a pixel; they are kept   *)
(* as integers scaled by 4 and compared after scaling by 8, which is what   *)
(* the f64 arithmetic of the source yields exactly on pixel coordinates.   *)
(***************************************************************************)

\* TUKEY_K = 1.5, as numerator and denominator
TUKEY_K_NUM == 3
TUKEY_K_DEN == 2

\* MIN_INLIER_RATIO = 0.5, as numerator and denominator
MIN_INLIER_RATIO_NUM == 1
MIN_INLIER_RATIO_DEN == 2

MIN_INLIER_COUNT == 3

\* PageBoundingBox::is_valid
is_valid(b) == b.width > 0 /\ b.height > 0

\* The four edge coordinates of a box: x, y, right(), bottom()
EdgeNames == {"left", "top", "right", "bottom"}

Edge(b, e) ==
    CASE e = "left" -> b.x
      [] e = "top" -> b.y
      [] e = "right" -> b.x + b.width
      [] e = "bottom" -> b.y + b.height

\* sort_unstable of the values of edge e over the boxes idxs
RECURSIVE InsertSorted(_, _)
InsertSorted(sorted, v) ==
    IF sorted = <<>> THEN <<v>>
    ELSE IF v <= Head(sorted) THEN <<v>> \o sorted
    ELSE <<Head(sorted)>> \o InsertSorted(Tail(sorted), v)

RECURSIVE SortedEdges(_, _, _)
SortedEdges(boxes, idxs, e) ==
    IF idxs = {} THEN <<>>
    ELSE LET i == CHOOSE j \in idxs : TRUE
         IN InsertSorted(SortedEdges(boxes, idxs \ {i}, e), Edge(boxes[i], e))

\* percentile(sorted_values, p) for p = quarters / 4, scaled by 4
percentile4(sorted_values, quarters) ==
    IF sorted_values = <<>> THEN 0
    ELSE IF Len(sorted_values) = 1 THEN 4 * sorted_values[1]
    ELSE LET idx4 == quarters * (Len(sorted_values) - 1)
             lo == idx4 \div 4
             hi == IF idx4 % 4 = 0 THEN lo ELSE lo + 1
             frac4 == idx4 - 4 * lo
         IN IF lo = hi
            THEN 4 * sorted_values[lo + 1]
            ELSE 4 * sorted_values[lo + 1]
                 + (sorted_values[hi + 1] - sorted_values[lo + 1]) * frac4

\* calculate_iqr: (Q1, Q3, IQR), each scaled by 4; the IQR is at least 1.0
calculate_iqr(sorted_values) ==
    IF sorted_values = <<>> THEN [q1 |-> 0, q3 |-> 0, iqr |-> 4]
    ELSE LET q1 == percentile4(sorted_values, 1)
             q3 == percentile4(sorted_values, 3)
         IN [q1 |-> q1, q3 |-> q3, iqr |-> IF q3 - q1 > 4 THEN q3 - q1 ELSE 4]

\* is_outlier: v < q1 - TUKEY_K * iqr || v > q3 + TUKEY_K * iqr, scaled by 4 * TUKEY_K_DEN
is_outlier_lower_fence_only(value, q) ==
    4 * TUKEY_K_DEN * value < TUKEY_K_DEN * q.q1 - TUKEY_K_NUM * q.iqr

is_outlier(value, q) ==
    \/ 4 * TUKEY_K_DEN * value < TUKEY_K_DEN * q.q1 - TUKEY_K_NUM * q.iqr
    \/ 4 * TUKEY_K_DEN * value > TUKEY_K_DEN * q.q3 + TUKEY_K_NUM * q.iqr

\* median_u32 of the values of edge e over the boxes idxs
median_u32(sorted) ==
    IF sorted = <<>> THEN 0
    ELSE LET n == Len(sorted)
         IN IF n % 2 = 1
            THEN sorted[n \div 2 + 1]
            ELSE (sorted[n \div 2] + sorted[n \div 2 + 1]) \div 2

saturating_sub(a, b) == IF a >= b THEN a - b ELSE 0

\* GroupCropRegion::default()
DefaultRegion ==
    [left |-> 0, top |-> 0, width |-> 0, height |-> 0,
     inlier_count |-> 0, total_count |-> 0]

\* `inliers.len() >= MIN_INLIER_COUNT && inliers.len() as f64 >= valid.len() as f64 * MIN_INLIER_RATIO`
UsesInliersRatioOneThird(inlier_len, valid_len) ==
    /\ inlier_len >= MIN_INLIER_COUNT
    /\ inlier_len * 3 >= valid_len

UsesInliers(inlier_len, valid_len) ==
    /\ inlier_len >= MIN_INLIER_COUNT
    /\ inlier_len * MIN_INLIER_RATIO_DEN >= valid_len * MIN_INLIER_RATIO_NUM

\* The boxes of `valid` that no edge makes an outlier
InliersOf(boxes, valid) ==
    LET q == [e \in EdgeNames |-> calculate_iqr(SortedEdges(boxes, valid, e))]
    IN {i \in valid : \A e \in EdgeNames : ~is_outlier(Edge(boxes[i], e), q[e])}

\* The locals valid, inliers and the choice between them
SelectionOf(boxes) ==
    LET valid == {i \in 1..Len(boxes) : is_valid(boxes[i])}
        inliers == InliersOf(boxes, valid)
    IN [valid |-> valid,
        inliers |-> inliers,
        use_inliers |-> IF UsesInliers(Cardinality(inliers), Cardinality(valid))
                        THEN inliers ELSE valid]

\* The rectangle of the medians of the boxes idxs
MedianRectRightAsWidth(boxes, idxs) ==
    [left |-> median_u32(SortedEdges(boxes, idxs, "left")),
     top |-> median_u32(SortedEdges(boxes, idxs, "top")),
     width |-> median_u32(SortedEdges(boxes, idxs, "right")),
     height |-> median_u32(SortedEdges(boxes, idxs, "bottom"))]

MedianRect(boxes, idxs) ==
    LET left == median_u32(SortedEdges(boxes, idxs, "left"))
        top == median_u32(SortedEdges(boxes, idxs, "top"))
        right == median_u32(SortedEdges(boxes, idxs, "right"))
        bottom == median_u32(SortedEdges(boxes, idxs, "bottom"))
    IN [left |-> left, top |-> top,
        width |-> saturating_sub(right, left),
        height |-> saturating_sub(bottom, top)]

\* decide_group_crop_region
decide_group_crop_region_counting_valid(boxes) ==
    LET sel == SelectionOf(boxes)
    IN IF boxes = <<>> \/ sel.valid = {}
       THEN DefaultRegion
       ELSE LET r == MedianRect(boxes, sel.use_inliers)
            IN [left |-> r.left, top |-> r.top,
                width |-> r.width, height |-> r.height,
                inlier_count |-> Len(boxes),
                total_count |-> Cardinality(sel.valid)]

decide_group_crop_region(boxes) ==
    LET sel == SelectionOf(boxes)
    IN IF boxes = <<>> \/ sel.valid = {}
       THEN DefaultRegion
       ELSE LET r == MedianRect(boxes, sel.use_inliers)
            IN [left |-> r.left, top |-> r.top,
                width |-> r.width, height |-> r.height,
                inlier_count |-> Cardinality(sel.use_inliers),
                total_count |-> Len(boxes)]

\* ---- inputs ----

\* Content rectangles a page may have: the regular page, a page close to it,
\* pages with one edge far out (left, top, right, bottom), a page that is far
\* out on every edge, and a page without content (zero width).
BoxKinds ==
    << [x |-> 100, y |-> 50, width |-> 800, height |-> 1200],
       [x |-> 102, y |-> 52, width |-> 798, height |-> 1196],
       [x |-> 0, y |-> 50, width |-> 900, height |-> 1200],
       [x |-> 100, y |-> 0, width |-> 800, height |-> 1250],
       [x |-> 100, y |-> 50, width |-> 1200, height |-> 1200],
       [x |-> 100, y |-> 50, width |-> 800, height |-> 1700],
       [x |-> 500, y |-> 500, width |-> 200, height |-> 200],
       [x |-> 100, y |-> 50, width |-> 0, height |-> 1200] >>

PageBoundingBox(page_number, rect) ==
    [page_number |-> page_number, x |-> rect.x, y |-> rect.y,
     width |-> rect.width, height |-> rect.height]

KindOf(b) ==
    CHOOSE k \in 1..Len(BoxKinds) :
        BoxKinds[k] = [x |-> b.x, y |-> b.y, width |-> b.width, height |-> b.height]

NoSelection == [valid |-> {}, inliers |-> {}, use_inliers |-> {}]

GroupIdle ==
    /\ gpc = "input"
    /\ bounding_boxes = <<>>
    /\ selection = NoSelection
    /\ region = DefaultRegion

\* Input: the bounding box of one more page.  Every result of the analyser is a
\* count, a sorted list or a median, none of which depends on the order of the
\* pages, so the lists are enumerated up to reordering: kinds in ascending order.
AddBox ==
    /\ gpc = "input"
    /\ Len(bounding_boxes) < MaxBoxes
    /\ \E k \in 1..Len(BoxKinds) :
         /\ bounding_boxes # <<>> => k >= KindOf(bounding_boxes[Len(bounding_boxes)])
         /\ bounding_boxes' = Append(bounding_boxes,
                PageBoundingBox(Len(bounding_boxes) + 1, BoxKinds[k]))
    /\ UNCHANGED <<gpc, selection, region>>
    /\ UNCHANGED exceptGrp

\* GroupCropAnalyzer::decide_group_crop_region(&bounding_boxes)
Decide ==
    /\ gpc = "input"
    /\ selection' = IF bounding_boxes = <<>> THEN NoSelection
                    ELSE SelectionOf(bounding_boxes)
    /\ region' = decide_group_crop_region(bounding_boxes)
    /\ gpc' = "decided"
    /\ UNCHANGED bounding_boxes
    /\ UNCHANGED exceptGrp

(***************************************************************************)
(* Worker pool: src/superbook-pdf/src/web/worker.rs                        *)
(*                                                                         *)
(* WorkerPool::new spawns worker_count tasks sharing one Receiver behind a *)
(* Mutex.  Each task loops: lock the receiver, recv, unlock, then either   *)
(* process the job or break.                                               *)
(***************************************************************************)

\* mpsc::channel::<WorkerMessage>(100)
CHANNEL_CAPACITY == 100

ProcessMsg(job_id) == [type |-> "Process", job_id |-> job_id]

ShutdownMsg == [type |-> "Shutdown"]

Workers == 1..worker_count

\* The Receiver lives in an Arc held by the worker tasks only
ReceiverAlive == \E w \in Workers : worker_pc[w] # "exited"

\* WorkerPool::new(queue, work_dir, n)
PoolInit(n) ==
    /\ worker_count = n
    /\ channel = <<>>
    /\ sender_alive = TRUE
    /\ rx_lock = 0
    /\ worker_pc = [w \in 1..n |-> "waiting"]
    /\ worker_job = [w \in 1..n |-> 0]
    /\ next_job_id = 1
    /\ last_submit = "none"
    /\ finished_jobs = {}
    /\ shutdown_calls = 0

PoolIdle == PoolInit(1)

\* WorkerPool::submit: sender.send(Process{..}).await, an error if the receiver is gone
Submit ==
    /\ sender_alive
    /\ next_job_id <= MaxJobs
    /\ Len(channel) < CHANNEL_CAPACITY
    /\ IF ReceiverAlive
       THEN /\ channel' = Append(channel, ProcessMsg(next_job_id))
            /\ last_submit' = "ok"
       ELSE /\ channel' = channel
            /\ last_submit' = "err"
    /\ next_job_id' = next_job_id + 1
    /\ UNCHANGED <<worker_count, sender_alive, rx_lock, worker_pc, worker_job,
                   finished_jobs, shutdown_calls>>
    /\ UNCHANGED exceptPool

\* The messages one call of WorkerPool::shutdown sends
ShutdownMessages == <<ShutdownMsg>>

\* WorkerPool::shutdown: let _ = sender.send(Shutdown).await
Shutdown ==
    /\ sender_alive
    /\ shutdown_calls < MaxShutdownCalls
    /\ Len(channel) + Len(ShutdownMessages) <= CHANNEL_CAPACITY
    /\ channel' = IF ReceiverAlive THEN channel \o ShutdownMessages ELSE channel
    /\ shutdown_calls' = shutdown_calls + 1
    /\ UNCHANGED <<worker_count, sender_alive, rx_lock, worker_pc, worker_job,
                   next_job_id, last_submit, finished_jobs>>
    /\ UNCHANGED exceptPool

\* The WorkerPool value is dropped and its Sender with it
DropPool ==
    /\ sender_alive
    /\ sender_alive' = FALSE
    /\ UNCHANGED <<worker_count, channel, rx_lock, worker_pc, worker_job,
                   next_job_id, last_submit, finished_jobs, shutdown_calls>>
    /\ UNCHANGED exceptPool

\* receiver.lock().await
LockReceiver(w) ==
    /\ worker_pc[w] = "waiting"
    /\ rx_lock = 0
    /\ rx_lock' = w
    /\ worker_pc' = [worker_pc EXCEPT ![w] = "receiving"]
    /\ UNCHANGED <<worker_count, channel, sender_alive, worker_job,
                   next_job_id, last_submit, finished_jobs, shutdown_calls>>
    /\ UNCHANGED exceptPool

RecvProcessLeavingMessage(w) ==
    /\ worker_pc[w] = "receiving"
    /\ channel # <<>>
    /\ Head(channel).type = "Process"
    /\ channel' = channel
    /\ rx_lock' = 0
    /\ worker_pc' = [worker_pc EXCEPT ![w] = "processing"]
    /\ worker_job' = [worker_job EXCEPT ![w] = Head(channel).job_id]
    /\ UNCHANGED <<worker_count, sender_alive, next_job_id, last_submit,
                   finished_jobs, shutdown_calls>>
    /\ UNCHANGED exceptPool

\* rx.recv().await yields Some(Process{..}): unlock, start process_job
RecvProcess(w) ==
    /\ worker_pc[w] = "receiving"
    /\ channel # <<>>
    /\ Head(channel).type = "Process"
    /\ channel' = Tail(channel)
    /\ rx_lock' = 0
    /\ worker_pc' = [worker_pc EXCEPT ![w] = "processing"]
    /\ worker_job' = [worker_job EXCEPT ![w] = Head(channel).job_id]
    /\ UNCHANGED <<worker_count, sender_alive, next_job_id, last_submit,
                   finished_jobs, shutdown_calls>>
    /\ UNCHANGED exceptPool

\* rx.recv().await yields Some(Shutdown), or None once the Sender is dropped
\* and the channel is drained: unlock, break
RecvShutdownOrClosed(w) ==
    /\ worker_pc[w] = "receiving"
    /\ \/ /\ channel # <<>>
          /\ Head(channel).type = "Shutdown"
          /\ channel' = Tail(channel)
       \/ /\ channel = <<>>
          /\ ~sender_alive
          /\ channel' = channel
    /\ rx_lock' = 0
    /\ worker_pc' = [worker_pc EXCEPT ![w] = "exited"]
    /\ UNCHANGED <<worker_count, sender_alive, worker_job, next_job_id,
                   last_submit, finished_jobs, shutdown_calls>>
    /\ UNCHANGED exceptPool

\* worker.process_job(..).await returns, whatever the outcome of the job
FinishJob(w) ==
    /\ worker_pc[w] = "processing"
    /\ finished_jobs' = finished_jobs \cup {worker_job[w]}
    /\ worker_job' = [worker_job EXCEPT ![w] = 0]
    /\ worker_pc' = [worker_pc EXCEPT ![w] = "waiting"]
    /\ UNCHANGED <<worker_count, channel, sender_alive, rx_lock, next_job_id,
                   last_submit, shutdown_calls>>
    /\ UNCHANGED exceptPool

\* One step of the task spawned for worker w
WorkerStep(w) ==
    \/ LockReceiver(w)
    \/ RecvProcess(w)
    \/ RecvShutdownOrClosed(w)
    \/ FinishJob(w)

(***************************************************************************)
(* Graceful shutdown: src/superbook-pdf/src/web/shutdown.rs                *)
(*                                                                         *)
(* Time is counted in units of 100 ms, the length of the sleep between two *)
(* polls.  A poll takes no time or one unit, a sleep one unit or two (a    *)
(* timer never fires early, it may fire late).                             *)
(***************************************************************************)

\* units of 100 ms in one second of ShutdownConfig::timeout_secs
TICKS_PER_SEC == 10

\* ShutdownConfig::default()
DefaultShutdownConfig == [timeout_secs |-> 30, wait_for_jobs |-> TRUE]

\* ShutdownCoordinator::timeout(), in units of 100 ms
Timeout(c) == c.timeout_secs * TICKS_PER_SEC

Success == [kind |-> "Success"]

TimeoutResult(pending_jobs) == [kind |-> "Timeout", pending_jobs |-> pending_jobs]

PollDelays == {0, 1}

SleepDelays == {1, 2}

ShutdownInit(c) ==
    /\ sd_pc = "start"
    /\ config = c
    /\ elapsed = 0
    /\ pending = <<>>
    /\ result = <<>>

ShutdownIdle == ShutdownInit(DefaultShutdownConfig)

\* `start.elapsed() >= timeout`
TimedOutStrictlyLater(e, c) == e > Timeout(c)

TimedOut(e, c) == e >= Timeout(c)

\* graceful_shutdown is entered with wait_for_jobs disabled
ReturnWithoutWaiting ==
    /\ sd_pc = "start"
    /\ ~config.wait_for_jobs
    /\ result' = <<Success>>
    /\ sd_pc' = "returned"
    /\ UNCHANGED <<config, elapsed, pending>>
    /\ UNCHANGED exceptSd

\* One round of the loop: poll, return Success or Timeout, or go to sleep
PollPending ==
    /\ \/ sd_pc = "start" /\ config.wait_for_jobs
       \/ sd_pc = "polling"
    /\ \E p \in 0..MaxPending, d \in PollDelays :
         /\ pending' = <<p>>
         /\ elapsed' = elapsed + d
         /\ IF p = 0
            THEN result' = <<Success>> /\ sd_pc' = "returned"
            ELSE IF TimedOut(elapsed + d, config)
            THEN result' = <<TimeoutResult(p)>> /\ sd_pc' = "returned"
            ELSE result' = result /\ sd_pc' = "sleep"
    /\ UNCHANGED config
    /\ UNCHANGED exceptSd

\* tokio::time::sleep(Duration::from_millis(100)).await
Sleep ==
    /\ sd_pc = "sleep"
    /\ \E d \in SleepDelays : elapsed' = elapsed + d
    /\ sd_pc' = "polling"
    /\ UNCHANGED <<config, pending, result>>
    /\ UNCHANGED exceptSd

(***************************************************************************)
(* Job store and recovery: src/superbook-pdf/src/web/persistence.rs        *)
(*                                                                         *)
(* A Job is [id, input_filename, status, error].  error is <<>> for None,   *)
(* <<0>> for a message that does not start with "Retry ", and <<n>> for the *)
(* message "Retry n: ..." that retry_failed formats.  Job and JobQueue      *)
(* (web/job.rs) are known through their callers and tests only.             *)
(***************************************************************************)

JobStatuses == {"Queued", "Processing", "Completed", "Failed", "Cancelled"}

InputFiles == <<"a.pdf", "b.pdf", "c.pdf">>

\* Job::is_terminal
is_terminal(job) == job.status \in {"Completed", "Failed", "Cancelled"}

\* Job::new(input_filename, options), with the fresh id made explicit
JobNew(id, input_filename) ==
    [id |-> id, input_filename |-> input_filename, status |-> "Queued", error |-> <<>>]

\* Job::fail(message) with a message of the worker
JobFail(job) == [job EXCEPT !.status = "Failed", !.error = <<0>>]

\* JobStore::save(job) on the in-memory map
CacheInsert(c, job) ==
    [id \in DOMAIN c \cup {job.id} |-> IF id = job.id THEN job ELSE c[id]]

\* The first character of the decimal form of n, as a digit
RECURSIVE FirstDigit(_)
FirstDigit(n) == IF n < 10 THEN n ELSE FirstDigit(n \div 10)

\* job.error.strip_prefix("Retry ").chars().next().to_digit(10).unwrap_or(0)
retry_count(job) ==
    IF job.error = <<>> \/ job.error = <<0>> THEN 0 ELSE FirstDigit(job.error[1])

\* `job.status == JobStatus::Failed` and `retry_count < max_retries`
Retried(job, max) == job.status = "Failed" /\ retry_count(job) < max

\* get_pending(): the non-terminal jobs of the store
get_pending == {id \in DOMAIN store_cache : ~is_terminal(store_cache[id])}

\* Number of members of S below id: the place of id when S is listed
RankIn(S, id) == Cardinality({j \in S : j < id})

\* JsonJobStore::new(path): the cache is what load() read from the file
StoreInit(c) ==
    /\ store_cache = c
    /\ dirty = FALSE
    /\ file_jobs = c
    /\ cache_writer = 0
    /\ cache_readers = {}
    /\ thread_pc = [t \in 1..MaxThreads |-> "idle"]
    /\ thread_removed = [t \in 1..MaxThreads |-> 0]

StoreIdle == StoreInit(<<>>)

RecoveryInit(n, max) ==
    /\ job_queue = <<>>
    /\ next_uuid = n
    /\ max_retries = max
    /\ requeues = [f \in 1..Len(InputFiles) |-> 0]
    /\ recovery = <<>>

RecoveryIdle == RecoveryInit(1, 0)

\* Stores the server may find at startup: jobs 1..k, job i from input file i
StoredJob(i, status) ==
    [id |-> i, input_filename |-> InputFiles[i], status |-> status,
     error |-> IF status = "Failed" THEN <<0>> ELSE <<>>]

InitialStores ==
    UNION {[1..k -> JobStatuses] : k \in 0..MaxStored}

StoreOf(st) == [i \in DOMAIN st |-> StoredJob(i, st[i])]

InputIndex(name) == CHOOSE f \in 1..Len(InputFiles) : InputFiles[f] = name

\* RecoveryManager::recover_on_startup
RecoverOnStartup ==
    /\ recovery = <<>>
    /\ LET pending_jobs == get_pending
       IN /\ job_queue' = [id \in DOMAIN job_queue \cup pending_jobs |->
                              IF id \in pending_jobs THEN store_cache[id]
                              ELSE job_queue[id]]
          /\ recovery' = <<[recovered |-> Cardinality(pending_jobs),
                            requeued |-> Cardinality({id \in pending_jobs :
                                             store_cache[id].status = "Processing"}),
                            failed |-> 0]>>
    /\ UNCHANGED <<next_uuid, max_retries, requeues>>
    /\ UNCHANGED storeVars
    /\ UNCHANGED exceptStoreRec

\* RecoveryManager::requeue_processing
RequeueProcessing ==
    /\ \E id \in get_pending : store_cache[id].status = "Processing"
    /\ LET processing == {id \in get_pending : store_cache[id].status = "Processing"}
       IN job_queue' = [id \in DOMAIN job_queue \cup processing |->
                           IF id \in processing
                           THEN [store_cache[id] EXCEPT !.status = "Queued"]
                           ELSE job_queue[id]]
    /\ UNCHANGED <<next_uuid, max_retries, requeues, recovery>>
    /\ UNCHANGED storeVars
    /\ UNCHANGED exceptStoreRec

\* RecoveryManager::retry_failed(max_retries)
RetryFailed ==
    LET retried == {id \in DOMAIN store_cache : Retried(store_cache[id], max_retries)}
        NewId(id) == next_uuid + RankIn(retried, id)
        RetryJob(id) ==
            [JobNew(NewId(id), store_cache[id].input_filename)
                EXCEPT !.error = <<retry_count(store_cache[id]) + 1>>]
        new_ids == {NewId(id) : id \in retried}
        Origin(n) == CHOOSE id \in retried : NewId(id) = n
    IN /\ retried # {}
       /\ next_uuid + Cardinality(retried) - 1 <= MaxStored + MaxRetryJobs
       /\ job_queue' = [n \in DOMAIN job_queue \cup new_ids |->
                           IF n \in new_ids THEN RetryJob(Origin(n)) ELSE job_queue[n]]
       /\ next_uuid' = next_uuid + Cardinality(retried)
       /\ requeues' = [f \in DOMAIN requeues |->
                          requeues[f] + Cardinality({id \in retried :
                              store_cache[id].input_filename = InputFiles[f]})]
       /\ UNCHANGED <<max_retries, recovery>>
       /\ UNCHANGED storeVars
       /\ UNCHANGED exceptStoreRec

\* A job of the queue fails in a worker (job.fail(message)) and the failed
\* job is saved to the store
JobFailsAgain ==
    /\ \E id \in DOMAIN job_queue :
         /\ job_queue[id].status \in {"Queued", "Processing"}
         /\ job_queue' = [job_queue EXCEPT ![id] = JobFail(@)]
         /\ store_cache' = CacheInsert(store_cache, JobFail(job_queue[id]))
    /\ dirty' = TRUE
    /\ UNCHANGED <<file_jobs, cache_writer, cache_readers, thread_pc, thread_removed>>
    /\ UNCHANGED <<next_uuid, max_retries, requeues, recovery>>
    /\ UNCHANGED exceptStoreRec

(***************************************************************************)
(* JsonJobStore used from several threads.  A method holds its guard on    *)
(* `cache` until it returns; `dirty` is locked only for the one read or     *)
(* write of the flag.  Of a Job the store reads id and completed_at; the    *)
(* jobs here are [id, status, completed_at], completed_at being <<>> for    *)
(* None and <<t>> for Some(t).                                              *)
(***************************************************************************)

Threads == 1..MaxThreads

TimedJobs ==
    {[id |-> i, status |-> "Queued", completed_at |-> <<>>] : i \in 1..MaxStoreIds}
    \cup {[id |-> i, status |-> "Completed", completed_at |-> <<1>>] : i \in 1..MaxStoreIds}

\* Values of `older_than` handed to cleanup
CleanupTimes == {0, 1}

\* cache.write() can be taken
CacheWritableDespiteReaders == cache_writer = 0

CacheWritable == cache_writer = 0 /\ cache_readers = {}

\* cache.read() can be taken
CacheReadable == cache_writer = 0

\* cache.remove(&id)
CacheRemove(c, id) == [j \in DOMAIN c \ {id} |-> c[j]]

\* cache.retain(|_, job| completed_at > older_than, or no completed_at)
CacheRetain(c, older_than) ==
    [j \in {k \in DOMAIN c : c[k].completed_at = <<>> \/ c[k].completed_at[1] > older_than}
        |-> c[j]]

\* save: cache.write(), cache.insert(job.id, job.clone())
SaveInsert(t) ==
    /\ thread_pc[t] = "idle"
    /\ CacheWritable
    /\ \E job \in TimedJobs : store_cache' = CacheInsert(store_cache, job)
    /\ cache_writer' = t
    /\ thread_pc' = [thread_pc EXCEPT ![t] = "save_inserted"]
    /\ UNCHANGED <<dirty, file_jobs, cache_readers, thread_removed>>
    /\ UNCHANGED recVars
    /\ UNCHANGED exceptStoreRec

\* delete: cache.write(), cache.remove(&id)
DeleteRemove(t) ==
    /\ thread_pc[t] = "idle"
    /\ CacheWritable
    /\ \E id \in 1..MaxStoreIds : store_cache' = CacheRemove(store_cache, id)
    /\ cache_writer' = t
    /\ thread_pc' = [thread_pc EXCEPT ![t] = "delete_removed"]
    /\ UNCHANGED <<dirty, file_jobs, cache_readers, thread_removed>>
    /\ UNCHANGED recVars
    /\ UNCHANGED exceptStoreRec

\* save and delete: *dirty = true, then return and drop the guards
MarkDirtyAndReturn(t) ==
    /\ thread_pc[t] \in {"save_inserted", "delete_removed"}
    /\ dirty' = TRUE
    /\ cache_writer' = 0
    /\ thread_pc' = [thread_pc EXCEPT ![t] = "idle"]
    /\ UNCHANGED <<store_cache, file_jobs, cache_readers, thread_removed>>
    /\ UNCHANGED recVars
    /\ UNCHANGED exceptStoreRec

\* cleanup: cache.write(), retain, removed = before - cache.len()
CleanupRetain(t) ==
    /\ thread_pc[t] = "idle"
    /\ CacheWritable
    /\ \E older_than \in CleanupTimes :
         /\ store_cache' = CacheRetain(store_cache, older_than)
         /\ thread_removed' = [thread_removed EXCEPT ![t] =
                Cardinality(DOMAIN store_cache)
                - Cardinality(DOMAIN CacheRetain(store_cache, older_than))]
    /\ cache_writer' = t
    /\ thread_pc' = [thread_pc EXCEPT ![t] = "cleanup_retained"]
    /\ UNCHANGED <<dirty, file_jobs, cache_readers>>
    /\ UNCHANGED recVars
    /\ UNCHANGED exceptStoreRec

\* cleanup: if removed > 0 { *dirty = true }, then return Ok(removed)
CleanupReturn(t) ==
    /\ thread_pc[t] = "cleanup_retained"
    /\ dirty' = IF thread_removed[t] > 0 THEN TRUE ELSE dirty
    /\ cache_writer' = 0
    /\ thread_removed' = [thread_removed EXCEPT ![t] = 0]
    /\ thread_pc' = [thread_pc EXCEPT ![t] = "idle"]
    /\ UNCHANGED <<store_cache, file_jobs, cache_readers>>
    /\ UNCHANGED recVars
    /\ UNCHANGED exceptStoreRec

\* flush: cache.read()
FlushLock(t) ==
    /\ thread_pc[t] = "idle"
    /\ CacheReadable
    /\ cache_readers' = cache_readers \cup {t}
    /\ thread_pc' = [thread_pc EXCEPT ![t] = "flush_locked"]
    /\ UNCHANGED <<store_cache, dirty, file_jobs, cache_writer, thread_removed>>
    /\ UNCHANGED recVars
    /\ UNCHANGED exceptStoreRec

\* flush: std::fs::write(&self.path, content)? succeeds
FlushWrite(t) ==
    /\ thread_pc[t] = "flush_locked"
    /\ file_jobs' = store_cache
    /\ thread_pc' = [thread_pc EXCEPT ![t] = "flush_written"]
    /\ UNCHANGED <<store_cache, dirty, cache_writer, cache_readers, thread_removed>>
    /\ UNCHANGED recVars
    /\ UNCHANGED exceptStoreRec

\* flush: serialising or writing fails, `?` returns the error
FlushFail(t) ==
    /\ thread_pc[t] = "flush_locked"
    /\ cache_readers' = cache_readers \ {t}
    /\ thread_pc' = [thread_pc EXCEPT ![t] = "idle"]
    /\ UNCHANGED <<store_cache, dirty, file_jobs, cache_writer, thread_removed>>
    /\ UNCHANGED recVars
    /\ UNCHANGED exceptStoreRec

\* flush: *dirty = false
FlushClearDirty(t) ==
    /\ thread_pc[t] = "flush_written"
    /\ dirty' = FALSE
    /\ thread_pc' = [thread_pc EXCEPT ![t] = "flush_cleared"]
    /\ UNCHANGED <<store_cache, file_jobs, cache_writer, cache_readers, thread_removed>>
    /\ UNCHANGED recVars
    /\ UNCHANGED exceptStoreRec

\* flush: Ok(()), the guards are dropped
FlushReturn(t) ==
    /\ thread_pc[t] = "flush_cleared"
    /\ cache_readers' = cache_readers \ {t}
    /\ thread_pc' = [thread_pc EXCEPT ![t] = "idle"]
    /\ UNCHANGED <<store_cache, dirty, file_jobs, cache_writer, thread_removed>>
    /\ UNCHANGED recVars
    /\ UNCHANGED exceptStoreRec

(***************************************************************************)
(* Page number detector: src/superbook-pdf/src/page_number/detect.rs       *)
(*                                                                         *)
(* A text is a sequence of one-character strings.                          *)
(***************************************************************************)

RECURSIVE SeqMin(_)
SeqMin(ns) ==
    IF Len(ns) = 1 THEN ns[1]
    ELSE LET m == SeqMin(Tail(ns)) IN IF ns[1] < m THEN ns[1] ELSE m

RECURSIVE SeqMax(_)
SeqMax(ns) ==
    IF Len(ns) = 1 THEN ns[1]
    ELSE LET m == SeqMax(Tail(ns)) IN IF ns[1] > m THEN ns[1] ELSE m

\* `.map(|n| (n - min) as usize)`
ReportedAsItself(n, min) == n

Reported(n, min) == n - min

\* (min..=max).filter(|n| !set.contains(n)).map(..).collect(), from n upwards
RECURSIVE MissingFrom(_, _, _, _)
MissingFrom(set, n, min, max) ==
    IF n > max THEN <<>>
    ELSE (IF n \in set THEN <<>> ELSE <<Reported(n, min)>>)
         \o MissingFrom(set, n + 1, min, max)

\* TesseractPageDetector::find_missing_pages
find_missing_pages(ns) ==
    IF ns = <<>> THEN <<>>
    ELSE LET min == SeqMin(ns)
             max == SeqMax(ns)
             set == {ns[i] : i \in 1..Len(ns)}
         IN MissingFrom(set, min, min, max)

\* ---- parse_roman_numeral ----

\* str::to_lowercase on the characters that occur
ToLowerChar(c) ==
    CASE c = "I" -> "i" [] c = "V" -> "v" [] c = "X" -> "x" [] c = "L" -> "l"
      [] c = "C" -> "c" [] c = "D" -> "d" [] c = "M" -> "m"
      [] c = "A" -> "a" [] c = "B" -> "b"
      [] OTHER -> c

to_lowercase(text) == [i \in 1..Len(text) |-> ToLowerChar(text[i])]

\* str::trim
RECURSIVE TrimStart(_)
TrimStart(text) ==
    IF text # <<>> /\ Head(text) = " " THEN TrimStart(Tail(text)) ELSE text

RECURSIVE TrimEnd(_)
TrimEnd(text) ==
    IF text # <<>> /\ text[Len(text)] = " "
    THEN TrimEnd(SubSeq(text, 1, Len(text) - 1)) ELSE text

trim(text) == TrimEnd(TrimStart(text))

\* The table roman_map, in its order
roman_map ==
    << [numeral |-> <<"m">>, value |-> 1000],
       [numeral |-> <<"c", "m">>, value |-> 900],
       [numeral |-> <<"d">>, value |-> 500],
       [numeral |-> <<"c", "d">>, value |-> 400],
       [numeral |-> <<"c">>, value |-> 100],
       [numeral |-> <<"x", "c">>, value |-> 90],
       [numeral |-> <<"l">>, value |-> 50],
       [numeral |-> <<"x", "l">>, value |-> 40],
       [numeral |-> <<"x">>, value |-> 10],
       [numeral |-> <<"i", "x">>, value |-> 9],
       [numeral |-> <<"v">>, value |-> 5],
       [numeral |-> <<"i", "v">>, value |-> 4],
       [numeral |-> <<"i">>, value |-> 1] >>

\* str::starts_with
starts_with(text, prefix) ==
    Len(text) >= Len(prefix) /\ SubSeq(text, 1, Len(prefix)) = prefix

\* The loop over roman_map from entry k on, with the locals result and remaining
RECURSIVE GreedyFrom(_, _, _)
GreedyFrom(k, res, remaining) ==
    IF k > Len(roman_map) THEN [result |-> res, remaining |-> remaining]
    ELSE IF starts_with(remaining, roman_map[k].numeral)
    THEN GreedyFrom(k, res + roman_map[k].value,
                    SubSeq(remaining, Len(roman_map[k].numeral) + 1, Len(remaining)))
    ELSE GreedyFrom(k + 1, res, remaining)

\* The locals after the loop
RomanLocals(text) == GreedyFrom(1, 0, trim(to_lowercase(text)))

\* `if remaining.is_empty() && result > 0 { Some(result) } else { None }`
RomanResultIgnoringRest(l) ==
    IF l.result > 0 THEN <<l.result>> ELSE <<>>

RomanResult(l) ==
    IF l.remaining = <<>> /\ l.result > 0 THEN <<l.result>> ELSE <<>>

\* TesseractPageDetector::parse_roman_numeral
parse_roman_numeral(text) == RomanResult(RomanLocals(text))

\* ---- inputs ----

\* The Roman numeral of n in 1..3999 by its decimal digits, in capitals
RomanOnes == << <<>>, <<"I">>, <<"I", "I">>, <<"I", "I", "I">>, <<"I", "V">>, <<"V">>,
               <<"V", "I">>, <<"V", "I", "I">>, <<"V", "I", "I", "I">>, <<"I", "X">> >>

RomanTens == << <<>>, <<"X">>, <<"X", "X">>, <<"X", "X", "X">>, <<"X", "L">>, <<"L">>,
               <<"L", "X">>, <<"L", "X", "X">>, <<"L", "X", "X", "X">>, <<"X", "C">> >>

RomanHundreds == << <<>>, <<"C">>, <<"C", "C">>, <<"C", "C", "C">>, <<"C", "D">>, <<"D">>,
                   <<"D", "C">>, <<"D", "C", "C">>, <<"D", "C", "C", "C">>, <<"C", "M">> >>

RomanThousands(k) == [i \in 1..k |-> "M"]

to_roman(n) ==
    RomanThousands(n \div 1000)
    \o RomanHundreds[((n \div 100) % 10) + 1]
    \o RomanTens[((n \div 10) % 10) + 1]
    \o RomanOnes[(n % 10) + 1]

\* Other texts: short texts over a few characters, and the texts of the tests
TextChars == {"I", "v", "X", "A", "1", " "}

ShortTexts == UNION {[1..k -> TextChars] : k \in 0..MaxTextLen}

TestTexts == { <<"A", "B", "C">>, <<"1", "2", "3">>, <<"M", "M", "X", "X", "I", "I", "I">> }

DetectInit(text, n) ==
    /\ dpc = "input"
    /\ numbers = <<>>
    /\ missing_pages = <<>>
    /\ roman_n = n
    /\ roman_text = text
    /\ roman_locals = [result |-> 0, remaining |-> <<>>]
    /\ roman_parsed = <<>>

DetectIdle == DetectInit(<<>>, 0)

\* Input: one more detected page number
AddNumber ==
    /\ dpc = "input"
    /\ Len(numbers) < MaxNumbers
    /\ \E n \in -1..MaxNumber : numbers' = Append(numbers, n)
    /\ UNCHANGED <<dpc, missing_pages, roman_n, roman_text, roman_locals, roman_parsed>>
    /\ UNCHANGED exceptDet

\* find_missing_pages(&detected_numbers)
FindMissing ==
    /\ dpc = "input"
    /\ missing_pages' = find_missing_pages(numbers)
    /\ dpc' = "reported"
    /\ UNCHANGED <<numbers, roman_n, roman_text, roman_locals, roman_parsed>>
    /\ UNCHANGED exceptDet

\* parse_roman_numeral(text)
ParseRoman ==
    /\ dpc = "input"
    /\ roman_locals' = RomanLocals(roman_text)
    /\ roman_parsed' = parse_roman_numeral(roman_text)
    /\ dpc' = "parsed"
    /\ UNCHANGED <<numbers, missing_pages, roman_n, roman_text>>
    /\ UNCHANGED exceptDet

(***************************************************************************)
(* Deblur stage: src/superbook-pdf/src/cleanup/deblur.rs                   *)
(*                                                                         *)
(* An image is [width, height, data], data being the pixels in row order;  *)
(* a pixel is <<r, g, b>>.  Floating-point values are exact rationals: the *)
(* Laplacian variance is a pair num / den, and the Gaussian kernel is held *)
(* in hundredths.                                                          *)
(***************************************************************************)

DEFAULT_BLUR_THRESHOLD == 100

\* DEFAULT_UNSHARP_AMOUNT = 1.5
DEFAULT_UNSHARP_AMOUNT_NUM == 3
DEFAULT_UNSHARP_AMOUNT_DEN == 2

DeblurAlgorithms == {"UnsharpMask", "NafNet", "DeblurGanV2"}

\* The sequence f with its elements computed once
Computed(f) == f @@ <<>>

\* get_pixel(x, y), x and y counted from 0
PixelAt(img, x, y) == img.data[y * img.width + x + 1]

\* DynamicImage::to_luma8 of an RGB pixel
Luma(px) == (2126 * px[1] + 7152 * px[2] + 722 * px[3]) \div 10000

to_luma8(img) ==
    [img EXCEPT !.data = Computed([i \in 1..Len(img.data) |-> Luma(img.data[i])])]

\* The Laplacian at (x, y): top + bottom + left + right - 4 * center
Laplacian(gray, x, y) ==
    PixelAt(gray, x, y - 1) + PixelAt(gray, x, y + 1)
    + PixelAt(gray, x - 1, y) + PixelAt(gray, x + 1, y)
    - 4 * PixelAt(gray, x, y)

\* f[1] + ... + f[k]
RECURSIVE SumTo(_, _)
SumTo(f, k) == IF k = 0 THEN 0 ELSE f[k] + SumTo(f, k - 1)

AbsInt(v) == IF v < 0 THEN 0 - v ELSE v

\* BlurDetector::laplacian_variance, as the rational num / den
laplacian_variance(gray) ==
    IF gray.width < 3 \/ gray.height < 3 THEN [num |-> 0, den |-> 1]
    ELSE LET iw == gray.width - 2
             count == iw * (gray.height - 2)
             \* the k-th pixel of `for y in 1..height - 1 { for x in 1..width - 1`
             lap == [k \in 1..count |->
                        Laplacian(gray, ((k - 1) % iw) + 1, ((k - 1) \div iw) + 1)]
             sq == [k \in 1..count |-> lap[k] * lap[k]]
             sum == SumTo(lap, count)
             sum_sq == SumTo(sq, count)
         IN \* (sum_sq / count) - (sum / count)^2, then abs()
            [num |-> AbsInt(count * sum_sq - sum * sum), den |-> count * count]

\* BlurDetector::detect_from_image; blur_severity is left out
detect_from_image(gray, threshold) ==
    LET variance == laplacian_variance(gray)
    IN [laplacian_variance |-> variance,
        is_blurry |-> variance.num < threshold * variance.den]

\* gaussian_kernel(9, 1.5) before it is normalised, in hundredths:
\* exp(-x^2 / 4.5) for x = -4..4; kernel_size = ceil(1.5 * 6) | 1 = 9
gaussian_kernel == <<3, 14, 41, 80, 100, 80, 41, 14, 3>>

KernelSum == SumTo(gaussian_kernel, Len(gaussian_kernel))

ClampIndex(v, hi) == IF v < 0 THEN 0 ELSE IF v > hi THEN hi ELSE v

\* One pass of convolve_separable along x (dx = 1) or along y (dx = 0),
\* with the source index clamped to the image
ConvolvePass(data, w, h, dx) ==
    LET k_half == Len(gaussian_kernel) \div 2
    IN Computed([i \in 1..(w * h) |->
           LET x == (i - 1) % w
               y == (i - 1) \div w
           IN SumTo([ki \in 1..Len(gaussian_kernel) |->
                        LET sx == IF dx = 1 THEN ClampIndex(x + (ki - 1) - k_half, w - 1) ELSE x
                            sy == IF dx = 1 THEN y ELSE ClampIndex(y + (ki - 1) - k_half, h - 1)
                        IN data[sy * w + sx + 1] * gaussian_kernel[ki]],
                    Len(gaussian_kernel))])

\* convolve_separable: the values are scaled by KernelSum after the
\* horizontal pass and by KernelSum^2 after the vertical pass
convolve_separable(data, w, h) ==
    ConvolvePass(ConvolvePass(data, w, h, 1), w, h, 0)

\* sharpened = original + amount * (original - blurred), clamped to 0..255
\* and cut to u8
Sharpened(original, blurred) ==
    LET den == DEFAULT_UNSHARP_AMOUNT_DEN * KernelSum * KernelSum
        num == DEFAULT_UNSHARP_AMOUNT_DEN * KernelSum * KernelSum * original
               + DEFAULT_UNSHARP_AMOUNT_NUM * (KernelSum * KernelSum * original - blurred)
    IN IF num <= 0 THEN 0
       ELSE IF num >= 255 * den THEN 255
       ELSE num \div den

\* Deblurrer::apply_unsharp_mask with the default sigma and amount
apply_unsharp_mask(img) ==
    LET n == Len(img.data)
        sharpened_channel(c) ==
            LET original == [i \in 1..n |-> img.data[i][c]]
                blurred == convolve_separable(original, img.width, img.height)
            IN Computed([i \in 1..n |-> Sharpened(original[i], blurred[i])])
        r == sharpened_channel(1)
        g == sharpened_channel(2)
        b == sharpened_channel(3)
    IN [img EXCEPT !.data = Computed([i \in 1..n |-> <<r[i], g[i], b[i]>>])]

\* `options.auto_detect && !before_metrics.is_blurry`
NoProcessingNeededWhenBlurry(options, before_metrics) ==
    options.auto_detect /\ before_metrics.is_blurry

NoProcessingNeeded(options, before_metrics) ==
    options.auto_detect /\ ~before_metrics.is_blurry

\* What both entry points do with the RGB image: the image left and the result
Deblurred(img, options) ==
    LET before_metrics == detect_from_image(to_luma8(img), options.blur_threshold)
    IN IF NoProcessingNeeded(options, before_metrics)
       THEN [image |-> img,
             result |-> [before_metrics |-> before_metrics,
                         after_metrics |-> <<>>,
                         processed |-> FALSE,
                         algorithm |-> options.algorithm,
                         image_size |-> <<img.width, img.height>>]]
       ELSE LET sharp == apply_unsharp_mask(img)
            IN [image |-> sharp,
                result |-> [before_metrics |-> before_metrics,
                            after_metrics |->
                                <<detect_from_image(to_luma8(sharp), options.blur_threshold)>>,
                            processed |-> TRUE,
                            algorithm |-> options.algorithm,
                            image_size |-> <<img.width, img.height>>]]

\* ---- inputs ----

GrayPixel(v) == <<v, v, v>>

\* Images of a flat background with a few brighter pixels
BlurImages(w, h) ==
    LET n == w * h
    IN {[width |-> w, height |-> h,
         data |-> [i \in 1..n |-> IF i \in B THEN GrayPixel(120) ELSE GrayPixel(100)]] :
            B \in {S \in SUBSET (1..n) : Cardinality(S) <= MaxBrightPixels}}

BlurThresholds == {0, DEFAULT_BLUR_THRESHOLD, 500}

BlurInit(img, exists, options) ==
    /\ bpc = "input"
    /\ blur_image = img
    /\ blur_original = img
    /\ blur_exists = exists
    /\ blur_options = options
    /\ blur_output = <<>>
    /\ blur_result = <<>>

BlurIdle ==
    BlurInit([width |-> 0, height |-> 0, data |-> <<>>], TRUE,
             [algorithm |-> "UnsharpMask", auto_detect |-> TRUE,
              blur_threshold |-> DEFAULT_BLUR_THRESHOLD])

\* Deblurrer::process(image_path, output_path, options)
Process ==
    /\ bpc = "input"
    /\ bpc' = "done"
    /\ IF ~blur_exists
       THEN /\ blur_result' = <<[error |-> "ImageNotFound"]>>
            /\ UNCHANGED blur_output
       ELSE LET d == Deblurred(blur_image, blur_options)
            IN /\ blur_output' = <<d.image>>
               /\ blur_result' = <<d.result>>
    /\ UNCHANGED <<blur_image, blur_original, blur_exists, blur_options>>
    /\ UNCHANGED exceptBlur

\* Deblurrer::process_in_place(image, options)
ProcessInPlace ==
    /\ bpc = "input"
    /\ blur_exists
    /\ bpc' = "done"
    /\ LET d == Deblurred(blur_image, blur_options)
       IN /\ blur_image' = d.image
          /\ blur_result' = <<d.result>>
    /\ UNCHANGED <<blur_original, blur_exists, blur_options, blur_output>>
    /\ UNCHANGED exceptBlur

(***************************************************************************)
(* Marker removal: src/superbook-pdf/src/cleanup/marker_removal.rs         *)
(*                                                                         *)
(* Hue, saturation and value are exact rationals: hue is num / den in      *)
(* degrees, saturation is d / max and value is max / 255; the bounds of a  *)
(* range are degrees and hundredths.                                       *)
(***************************************************************************)

EDGE_THRESHOLD == 50

\* HighlighterColor::all(), in its order
AllColors == <<"Yellow", "Pink", "Green", "Blue", "Orange">>

\* HighlighterColor::hsv_range, saturation and value in hundredths
hsv_range(color) ==
    CASE color = "Yellow" ->
           [hue_min |-> 50, hue_max |-> 70, sat_min |-> 30, sat_max |-> 100,
            val_min |-> 70, val_max |-> 100]
      [] color = "Pink" ->
           [hue_min |-> 300, hue_max |-> 345, sat_min |-> 25, sat_max |-> 80,
            val_min |-> 70, val_max |-> 100]
      [] color = "Green" ->
           [hue_min |-> 80, hue_max |-> 140, sat_min |-> 30, sat_max |-> 90,
            val_min |-> 50, val_max |-> 100]
      [] color = "Blue" ->
           [hue_min |-> 190, hue_max |-> 240, sat_min |-> 30, sat_max |-> 90,
            val_min |-> 50, val_max |-> 100]
      [] color = "Orange" ->
           [hue_min |-> 15, hue_max |-> 45, sat_min |-> 40, sat_max |-> 100,
            val_min |-> 70, val_max |-> 100]

Max3(a, b, c) == IF a >= b /\ a >= c THEN a ELSE IF b >= c THEN b ELSE c

Min3(a, b, c) == IF a <= b /\ a <= c THEN a ELSE IF b <= c THEN b ELSE c

\* MarkerRemover::rgb_to_hsv: [hnum, hden, max, d], that is
\* h = hnum / hden, s = d / max (0 when max = 0), v = max / 255
rgb_to_hsv(r, g, b) ==
    LET max == Max3(r, g, b)
        min == Min3(r, g, b)
        d == max - min
        h == IF d = 0 THEN 0
             ELSE IF max = r THEN 60 * (g - b)
             ELSE IF max = g THEN 60 * (b - r) + 120 * d
             ELSE 60 * (r - g) + 240 * d
    IN [hnum |-> IF h < 0 THEN h + 360 * d ELSE h,
        hden |-> IF d = 0 THEN 1 ELSE d,
        max |-> max,
        d |-> d]

\* HsvRange::matches
matches(range, hsv) ==
    LET hue_match ==
            IF range.hue_min > range.hue_max
            THEN \/ hsv.hnum >= range.hue_min * hsv.hden
                 \/ hsv.hnum <= range.hue_max * hsv.hden
            ELSE /\ hsv.hnum >= range.hue_min * hsv.hden
                 /\ hsv.hnum <= range.hue_max * hsv.hden
        \* s = d / max, and 0 when max = 0
        sn == IF hsv.max = 0 THEN 0 ELSE hsv.d
        sd == IF hsv.max = 0 THEN 1 ELSE hsv.max
    IN /\ hue_match
       /\ 100 * sn >= range.sat_min * sd
       /\ 100 * sn <= range.sat_max * sd
       /\ 100 * hsv.max >= range.val_min * 255
       /\ 100 * hsv.max <= range.val_max * 255

\* MarkerRemover::luminance: (0.299 r + 0.587 g + 0.114 b).round() as u8
luminance(px) == (299 * px[1] + 587 * px[2] + 114 * px[3] + 500) \div 1000

\* f64::sqrt followed by `as u8`: the integer square root, at most 255
SqrtAsU8(v) ==
    CHOOSE m \in 0..255 : m * m <= v /\ (m = 255 \/ (m + 1) * (m + 1) > v)

\* MarkerRemover::compute_edge_map: the Sobel magnitude inside, 0 on the border
compute_edge_map(img) ==
    LET w == img.width
        h == img.height
        gray == Computed([i \in 1..Len(img.data) |-> luminance(img.data[i])])
        at(x, y) == gray[y * w + x + 1]
    IN Computed([i \in 1..Len(img.data) |->
           LET x == (i - 1) % w
               y == (i - 1) \div w
           IN IF x < 1 \/ x > w - 2 \/ y < 1 \/ y > h - 2 THEN 0
              ELSE LET gx == at(x + 1, y - 1) + 2 * at(x + 1, y) + at(x + 1, y + 1)
                             - at(x - 1, y - 1) - 2 * at(x - 1, y) - at(x - 1, y + 1)
                       gy == at(x - 1, y + 1) + 2 * at(x, y + 1) + at(x + 1, y + 1)
                             - at(x - 1, y - 1) - 2 * at(x, y - 1) - at(x + 1, y - 1)
                   IN SqrtAsU8(gx * gx + gy * gy)])

\* MarkerRemover::fade_to_white, strength being num / den
FadeChannel(v, strength) ==
    LET f == (v * strength.den + (255 - v) * strength.num) \div strength.den
    IN IF f > 255 THEN 255 ELSE f

fade_to_white(px, strength) ==
    <<FadeChannel(px[1], strength), FadeChannel(px[2], strength), FadeChannel(px[3], strength)>>

\* The first colour of `colors` from position k on whose range the pixel
\* matches, as its position; 0 if there is none
RECURSIVE FirstMatchFrom(_, _, _)
FirstMatchFrom(colors, k, hsv) ==
    IF k > Len(colors) THEN 0
    ELSE IF matches(hsv_range(colors[k]), hsv) THEN k
    ELSE FirstMatchFrom(colors, k + 1, hsv)

FirstMatch(colors, px) == FirstMatchFrom(colors, 1, rgb_to_hsv(px[1], px[2], px[3]))

\* `edges.get_pixel(x, y).0[0] > options.edge_threshold`
OnEdgeNever(edge, edge_threshold) == FALSE

OnEdge(edge, edge_threshold) == edge > edge_threshold

\* The colour a pixel is counted against by the loop body, as its position in
\* `colors`; 0 if the pixel is skipped or matches no colour
CountedAs(img, edges, options, i) ==
    IF edges # <<>> /\ OnEdge(edges[1][i], options.edge_threshold) THEN 0
    ELSE FirstMatch(options.colors, img.data[i])

\* MarkerRemover::remove_in_place: the image left, the edge map and the result
remove_in_place(img, options) ==
    LET n == Len(img.data)
        edge_map == IF options.preserve_text_edges THEN <<compute_edge_map(img)>> ELSE <<>>
        counted == Computed([i \in 1..n |-> CountedAs(img, edge_map, options, i)])
        marker == {i \in 1..n : counted[i] # 0}
    IN [image |-> [img EXCEPT !.data = Computed([i \in 1..n |->
                       IF counted[i] # 0 THEN fade_to_white(img.data[i], options.strength)
                       ELSE img.data[i]])],
        edges |-> edge_map,
        counted |-> marker,
        result |-> [detected_pixels |->
                        [k \in 1..Len(options.colors) |->
                            Cardinality({i \in 1..n : counted[i] = k})],
                    total_marker_pixels |-> Cardinality(marker),
                    total_pixels |-> img.width * img.height,
                    image_size |-> <<img.width, img.height>>]]

\* ---- inputs ----

White == <<255, 255, 255>>

\* Inks: a yellow marker, a light gray and black
Inks == { <<255, 255, 100>>, <<230, 230, 230>>, <<0, 0, 0>> }

\* White pages with a few pixels of ink
MarkerImages(w, h) ==
    LET n == w * h
    IN UNION {
         {[width |-> w, height |-> h,
           data |-> [i \in 1..n |-> IF i \in S THEN ink[i] ELSE White]] :
              ink \in [S -> Inks]} :
         S \in {T \in SUBSET (1..n) : Cardinality(T) <= MaxInkPixels}}

\* edge_threshold: the default
MarkerThresholds == {EDGE_THRESHOLD}

\* strength: 1.0
DefaultStrength == [num |-> 1, den |-> 1]

MarkerInit(img, options) ==
    /\ mpc = "input"
    /\ marker_image = img
    /\ marker_original = img
    /\ marker_options = options
    /\ marker_edges = <<>>
    /\ marker_counted = {}
    /\ marker_result = <<>>

MarkerIdle ==
    MarkerInit([width |-> 0, height |-> 0, data |-> <<>>],
               [colors |-> AllColors, strength |-> DefaultStrength,
                preserve_text_edges |-> TRUE, edge_threshold |-> EDGE_THRESHOLD])

\* MarkerRemover::remove_in_place(image, options)
RemoveInPlace ==
    /\ mpc = "input"
    /\ mpc' = "done"
    /\ LET d == remove_in_place(marker_image, marker_options)
       IN /\ marker_image' = d.image
          /\ marker_edges' = d.edges
          /\ marker_counted' = d.counted
          /\ marker_result' = <<d.result>>
    /\ UNCHANGED <<marker_original, marker_options>>
    /\ UNCHANGED exceptMrk

(***************************************************************************)
(* Vertical writing detector: src/superbook-pdf/src/vertical_detect.rs     *)
(*                                                                         *)
(* A gray image is [width, height, data], data being the pixel values in   *)
(* row order.  Scores are kept in thousandths, each metric rounded down;   *)
(* a probability is kept as the pair of scores it is the quotient of.      *)
(***************************************************************************)

SCORE_SCALE == 1000

\* The integer square root of v, found between lo and hi
RECURSIVE IsqrtBetween(_, _, _)
IsqrtBetween(v, lo, hi) ==
    IF lo >= hi THEN lo
    ELSE LET mid == (lo + hi + 1) \div 2
         IN IF mid * mid <= v THEN IsqrtBetween(v, mid, hi)
            ELSE IsqrtBetween(v, lo, mid - 1)

Isqrt(v) == IsqrtBetween(v, 0, 46340)

\* num / (den + 1e-9) in thousandths, rounded down
QuotientWithEpsilon(num, den) ==
    IF den = 0 THEN 0
    ELSE LET q == (SCORE_SCALE * num) \div den
             r == (SCORE_SCALE * num) % den
         IN IF r = 0 /\ q > 0 THEN q - 1 ELSE q

\* rotate_90_clockwise: the pixel (x, y) goes to (y, width - 1 - x) of an
\* image of width `height` and height `width`
rotate_90_clockwise(img) ==
    [width |-> img.height,
     height |-> img.width,
     data |-> Computed([j \in 1..Len(img.data) |->
                 LET new_x == (j - 1) % img.height
                     new_y == (j - 1) \div img.height
                     x == img.width - 1 - new_y
                     y == new_x
                 IN img.data[y * img.width + x + 1]])]

\* median(data)
median(data) ==
    LET Sorted[k \in 0..Len(data)] ==
            IF k = 0 THEN <<>> ELSE InsertSorted(Sorted[k - 1], data[k])
    IN median_u32(Sorted[Len(data)])

\* `pixel <= options.black_threshold`
is_black(img, x, y, options) == img.data[y * img.width + x + 1] <= options.black_threshold

\* The number of black pixel clusters of row y between start_x and end_x
IntersectsAfterFirstColumn(img, y, start_x, end_x, options) ==
    Cardinality({x \in start_x..(end_x - 1) :
                    /\ is_black(img, x, y, options)
                    /\ x > start_x /\ ~is_black(img, x - 1, y, options)})

Intersects(img, y, start_x, end_x, options) ==
    Cardinality({x \in start_x..(end_x - 1) :
                    /\ is_black(img, x, y, options)
                    /\ x = start_x \/ ~is_black(img, x - 1, y, options)})

\* The lengths of the maximal runs of value b in the sequence flags
RunsOf(flags, b) ==
    LET n == Len(flags)
        Starts == {i \in 1..n : flags[i] = b /\ (i = 1 \/ flags[i - 1] # b)}
        EndOf(i) == CHOOSE j \in i..n :
                        /\ \A k \in i..j : flags[k] = b
                        /\ j = n \/ flags[j + 1] # b
        Collect[i \in 0..n] ==
            IF i = 0 THEN <<>>
            ELSE IF i \in Starts THEN Append(Collect[i - 1], EndOf(i) - i + 1)
            ELSE Collect[i - 1]
    IN Collect[n]

\* The score of the block of columns start_x .. end_x - 1, in thousandths
BlockScoreOfImage(img, start_x, end_x, options) ==
    LET count == img.height
        intersections_per_row ==
            Computed([r \in 1..count |-> Intersects(img, r - 1, start_x, end_x, options)])
        squares == [r \in 1..count |-> intersections_per_row[r] * intersections_per_row[r]]
        total == SumTo(intersections_per_row, count)
        zero_lines == Cardinality({r \in 1..count : intersections_per_row[r] = 0})
        \* stddev / mean = sqrt(count * sum of squares - total^2) / total
        variation_coefficient ==
            IF total > 0
            THEN Isqrt((count * SumTo(squares, count) - total * total)
                       * SCORE_SCALE * SCORE_SCALE) \div total
            ELSE 0
        zero_ratio == (SCORE_SCALE * zero_lines) \div count
        \* `intersects as f64 >= mean.max(1.0)`
        is_line == [r \in 1..count |->
                       /\ intersections_per_row[r] * count >= total
                       /\ intersections_per_row[r] >= 1]
        line_thicknesses == RunsOf(is_line, TRUE)
        gap_heights == RunsOf(is_line, FALSE)
        separation_ratio ==
            IF line_thicknesses # <<>> /\ gap_heights # <<>>
            THEN LET median_line == median(line_thicknesses)
                     median_gap == median(gap_heights)
                 IN QuotientWithEpsilon(median_gap, median_line + median_gap)
            ELSE 0
        score == (4 * variation_coefficient + 2 * zero_ratio + 4 * separation_ratio) \div 10
    IN IF score > SCORE_SCALE THEN SCORE_SCALE ELSE score

\* compute_linear_score, in thousandths
compute_linear_score(img, options) ==
    LET width == img.width
        block_count == IF options.block_count < 1 THEN 1 ELSE options.block_count
        block_width == width \div block_count
        block_scores ==
            [blk \in 1..block_count |->
                LET start_x == (blk - 1) * block_width
                    end_x == IF blk = block_count THEN width ELSE start_x + block_width
                IN BlockScoreOfImage(img, start_x, end_x, options)]
    IN IF width = 0 \/ img.height = 0 THEN 0
       ELSE IF block_width = 0 THEN 0
       ELSE SumTo(block_scores, block_count) \div block_count

\* detect_vertical_probability; vertical_probability is
\* vertical_score / (horizontal_score + vertical_score + 1e-9), which lies in
\* 0..1, and is kept as its two scores
detect_vertical_probability(img, options) ==
    IF img.width = 0 \/ img.height = 0 THEN [error |-> "InvalidImage"]
    ELSE LET horizontal_score == compute_linear_score(img, options)
             vertical_score == compute_linear_score(rotate_90_clockwise(img), options)
         IN [horizontal_score |-> horizontal_score,
             vertical_score |-> vertical_score,
             \* vertical_probability >= vertical_threshold = 0.5
             is_vertical |->
                 2 * SCORE_SCALE * vertical_score
                     >= SCORE_SCALE * (horizontal_score + vertical_score) + 1]

\* ---- inputs ----

\* Pages of one tone with a few pixels of the other tone
GrayImages(max_side) ==
    UNION {UNION {
        {[width |-> w, height |-> h,
          data |-> [i \in 1..(w * h) |-> IF (i \in S) = dark THEN 0 ELSE 255]] :
             S \in {T \in SUBSET (1..(w * h)) : Cardinality(T) <= MaxDots},
             dark \in BOOLEAN} :
        w \in 1..max_side} : h \in 1..max_side}
    \cup {[width |-> 0, height |-> 0, data |-> <<>>]}

VdInit(img, options) ==
    /\ vpc = "input"
    /\ vd_image = img
    /\ vd_options = options
    /\ vd_result = <<>>
    /\ vd_rot_result = <<>>

VdIdle ==
    VdInit([width |-> 0, height |-> 0, data |-> <<>>],
           [black_threshold |-> 128, block_count |-> 4])

\* detect_vertical_probability(I, options)
DetectVertical ==
    /\ vd_result = <<>>
    /\ vd_result' = <<detect_vertical_probability(vd_image, vd_options)>>
    /\ vpc' = IF vd_rot_result # <<>> THEN "done" ELSE vpc
    /\ UNCHANGED <<vd_image, vd_options, vd_rot_result>>
    /\ UNCHANGED exceptVd

\* detect_vertical_probability(rotate90(I), options)
DetectRotated ==
    /\ vd_rot_result = <<>>
    /\ vd_rot_result' =
           <<detect_vertical_probability(rotate_90_clockwise(vd_image), vd_options)>>
    /\ vpc' = IF vd_result # <<>> THEN "done" ELSE vpc
    /\ UNCHANGED <<vd_image, vd_options, vd_result>>
    /\ UNCHANGED exceptVd

(***************************************************************************)
(* Convert run: src/superbook-pdf/src/main.rs                              *)
(***************************************************************************)

\* exit_codes module of the library (values as enumerated by the specification)
SUCCESS == 0
GENERAL_ERROR == 1
INPUT_NOT_FOUND == 2

\* State of the cache file next to a book's output PDF, relative to the
\* current input: no file, a file that does not parse (or has another version),
\* a parsed record whose digest differs from the current (mtime, size,
\* options hash), a parsed record whose digest equals it.
CacheStates == {"absent", "unparsable", "stale", "fresh"}

ArgsSet == [force : BOOLEAN, skip_existing : BOOLEAN, dry_run : BOOLEAN]

\* should_skip_processing(input, output, options_json, force) returns Some(cache)
should_skip_processing(output_exists, cache, force) ==
    /\ ~force
    /\ output_exists
    /\ cache = "fresh"

\* The skip decision at the top of the loop body.
SkipsBookIgnoringCache(a, output_exists, cache) ==
    ~a.force /\ output_exists

SkipsBook(a, output_exists, cache) ==
    IF a.skip_existing /\ ~a.force
    THEN output_exists
    ELSE IF ~a.force
         THEN should_skip_processing(output_exists, cache, FALSE)
         ELSE FALSE

\* Increment of error_count for a processed book: only the Err arm of the match
\* counts; the cache save in the Ok arm is `if let Ok(..)` / `let _ =`.
ErrorIncrementStrictSave(process_ok, digest_ok, save_ok) ==
    IF process_ok /\ digest_ok /\ save_ok THEN 0 ELSE 1

ErrorIncrement(process_ok, digest_ok, save_ok) ==
    IF process_ok THEN 0 ELSE 1

\* The cache file is written when the digest could be computed and the write succeeded.
CacheWrittenAfterAnyOutcome(process_ok, digest_ok, save_ok) ==
    digest_ok /\ save_ok

CacheWritten(process_ok, digest_ok, save_ok) ==
    process_ok /\ digest_ok /\ save_ok

\* The for loop over pdf_files ends when every book has been visited: neither
\* arm of the match breaks or returns.
LoopFinishedAbortOnError ==
    Len(books) = pdf_files \/ error_count > 0

LoopFinished ==
    Len(books) = pdf_files

\* Result of run_convert after the loop and its mapping to the exit code in main.
ExitCodeAlwaysSuccess(errors) == SUCCESS

ExitCodeOfRun(errors) ==
    IF errors > 0 THEN GENERAL_ERROR ELSE SUCCESS

\* Exit code when the listing of the input or the creation of the output
\* directory fails: the `?` returns Err, which main maps to GENERAL_ERROR.
ExitCodeOfIoError == GENERAL_ERROR

ConvertInit(a) ==
    /\ cpc = "start"
    /\ args = a
    /\ input_exists = FALSE
    /\ collected = "unread"
    /\ dir_created = "untried"
    /\ pdf_files = 0
    /\ books = <<>>
    /\ ok_count = 0
    /\ skip_count = 0
    /\ error_count = 0
    /\ exit_status = <<>>

ConvertIdle == ConvertInit([force |-> FALSE, skip_existing |-> FALSE, dry_run |-> FALSE])

\* run_convert up to the loop: validate the input path, collect the PDF files,
\* stop after printing the plan on a dry run, create the output directory.
StartConvert ==
    /\ cpc = "start"
    /\ \E exists \in BOOLEAN, listing \in {"ok", "err"}, n \in 0..MaxBooks,
          mkdir \in {"ok", "err"} :
         /\ input_exists' = exists
         /\ IF ~exists
            THEN /\ exit_status' = <<INPUT_NOT_FOUND>>
                 /\ cpc' = "exited"
                 /\ UNCHANGED <<collected, dir_created, pdf_files>>
            ELSE IF listing = "err"
            THEN /\ collected' = "err"
                 /\ exit_status' = <<ExitCodeOfIoError>>
                 /\ cpc' = "exited"
                 /\ UNCHANGED <<dir_created, pdf_files>>
            ELSE IF n = 0
            THEN /\ collected' = "ok"
                 /\ pdf_files' = 0
                 /\ exit_status' = <<INPUT_NOT_FOUND>>
                 /\ cpc' = "exited"
                 /\ UNCHANGED dir_created
            ELSE IF args.dry_run
            THEN /\ collected' = "ok"
                 /\ pdf_files' = n
                 /\ exit_status' = <<SUCCESS>>
                 /\ cpc' = "exited"
                 /\ UNCHANGED dir_created
            ELSE IF mkdir = "err"
            THEN /\ collected' = "ok"
                 /\ pdf_files' = n
                 /\ dir_created' = "err"
                 /\ exit_status' = <<ExitCodeOfIoError>>
                 /\ cpc' = "exited"
            ELSE /\ collected' = "ok"
                 /\ pdf_files' = n
                 /\ dir_created' = "ok"
                 /\ exit_status' = <<>>
                 /\ cpc' = "loop"
    /\ UNCHANGED <<args, books, ok_count, skip_count, error_count>>
    /\ UNCHANGED exceptConv

\* One iteration of `for (idx, pdf_path) in pdf_files.iter().enumerate()`.
\* The file system state of the book (output present, cache state) and the
\* outcomes of the pipeline, of CacheDigest::new and of cache.save are inputs.
ProcessBook ==
    /\ cpc = "loop"
    /\ ~LoopFinished
    /\ \E out \in BOOLEAN, cache \in CacheStates,
          process_ok \in BOOLEAN, digest_ok \in BOOLEAN, save_ok \in BOOLEAN :
         IF SkipsBook(args, out, cache)
         THEN /\ skip_count' = skip_count + 1
              /\ books' = Append(books,
                     [output_exists |-> out, cache |-> cache,
                      outcome |-> "skipped", digest |-> "na", save |-> "na",
                      cache_written |-> FALSE])
              /\ UNCHANGED <<ok_count, error_count>>
         ELSE IF process_ok
         THEN /\ ok_count' = ok_count + 1
              /\ error_count' = error_count + ErrorIncrement(TRUE, digest_ok, save_ok)
              /\ books' = Append(books,
                     [output_exists |-> out, cache |-> cache,
                      outcome |-> "ok",
                      digest |-> IF digest_ok THEN "ok" ELSE "err",
                      save |-> IF ~digest_ok THEN "na"
                               ELSE IF save_ok THEN "ok" ELSE "err",
                      cache_written |-> CacheWritten(TRUE, digest_ok, save_ok)])
              /\ UNCHANGED skip_count
         ELSE /\ error_count' = error_count + ErrorIncrement(FALSE, digest_ok, save_ok)
              /\ books' = Append(books,
                     [output_exists |-> out, cache |-> cache,
                      outcome |-> "failed", digest |-> "na", save |-> "na",
                      cache_written |-> CacheWritten(FALSE, digest_ok, save_ok)])
              /\ UNCHANGED <<ok_count, skip_count>>
    /\ UNCHANGED <<cpc, args, input_exists, collected, dir_created, pdf_files,
                   exit_status>>
    /\ UNCHANGED exceptConv

\* After the loop: summary, then Err if error_count > 0 else Ok; main exits.
FinishConvert ==
    /\ cpc = "loop"
    /\ LoopFinished
    /\ exit_status' = <<ExitCodeOfRun(error_count)>>
    /\ cpc' = "exited"
    /\ UNCHANGED <<args, input_exists, collected, dir_created, pdf_files,
                   books, ok_count, skip_count, error_count>>
    /\ UNCHANGED exceptConv

(***************************************************************************)
(* Batch queue: src/superbook-pdf/src/web/batch.rs                         *)
(*                                                                         *)
(* One batch id is followed.  The JobQueue (web/job.rs) is known through   *)
(* its callers and tests: get returns the job stored under an id, cancel   *)
(* leaves a job that is not terminal with status Cancelled.                *)
(***************************************************************************)

\* BatchJob::new, then start() for a batch that is being processed; status is
\* a BatchStatus
BatchJobNew(status) == [status |-> status, job_ids |-> <<>>, completed_at |-> <<>>]

\* BatchJob::add_job
add_job(batch, job_id) == [batch EXCEPT !.job_ids = Append(@, job_id)]

\* BatchJob::cancel
batch_cancel(batch) == [batch EXCEPT !.status = "Cancelled", !.completed_at = <<1>>]

\* JobQueue::cancel(job_id) on the map of job statuses
queue_cancel(jobs, job_id) ==
    IF job_id \in DOMAIN jobs /\ jobs[job_id] \notin {"Completed", "Failed", "Cancelled"}
    THEN [jobs EXCEPT ![job_id] = "Cancelled"]
    ELSE jobs

\* `JobStatus::Queued | JobStatus::Processing` in the match of BatchQueue::cancel
CancelsJobQueuedOnly(status) == status = "Queued"

CancelsJob(status) == status \in {"Queued", "Processing"}

\* `JobStatus::Completed` in the match
CountsCompleted(status) == status = "Completed"

BatchInit(batch) ==
    /\ bq_pc = "input"
    /\ bq_batch = batch
    /\ bq_jobs = <<>>
    /\ bq_entry = <<>>
    /\ bq_index = 0
    /\ bq_cancelled = 0
    /\ bq_completed = 0
    /\ bq_result = <<>>

BatchIdle == BatchInit(<<>>)

\* Input: one more job of the batch.  Its id is either unknown to the job
\* queue or stored there with some status.
AddBatchJob ==
    /\ bq_pc = "input"
    /\ bq_batch # <<>>
    /\ Len(bq_batch[1].job_ids) < MaxBatchJobs
    /\ LET job_id == Len(bq_batch[1].job_ids) + 1
       IN /\ bq_batch' = <<add_job(bq_batch[1], job_id)>>
          /\ \/ bq_jobs' = bq_jobs
             \/ \E status \in JobStatuses :
                  bq_jobs' = [i \in DOMAIN bq_jobs \cup {job_id} |->
                                 IF i = job_id THEN status ELSE bq_jobs[i]]
    /\ UNCHANGED <<bq_pc, bq_entry, bq_index, bq_cancelled, bq_completed, bq_result>>
    /\ UNCHANGED exceptBatch

\* BatchQueue::cancel up to the loop: batches.write().await, batches.get_mut
BatchCancelStart ==
    /\ bq_pc = "input"
    /\ bq_entry' = bq_jobs
    /\ IF bq_batch = <<>>
       THEN /\ bq_pc' = "returned"
            /\ UNCHANGED <<bq_index, bq_cancelled, bq_completed>>
       ELSE /\ bq_pc' = "loop"
            /\ bq_index' = 1
            /\ bq_cancelled' = 0
            /\ bq_completed' = 0
    /\ UNCHANGED <<bq_batch, bq_jobs, bq_result>>
    /\ UNCHANGED exceptBatch

\* One iteration of `for job_id in &batch.job_ids`
BatchCancelVisit ==
    /\ bq_pc = "loop"
    /\ bq_index <= Len(bq_batch[1].job_ids)
    /\ LET job_id == bq_batch[1].job_ids[bq_index]
       IN IF job_id \notin DOMAIN bq_jobs
          THEN UNCHANGED <<bq_jobs, bq_cancelled, bq_completed>>
          ELSE IF CountsCompleted(bq_jobs[job_id])
          THEN /\ bq_completed' = bq_completed + 1
               /\ UNCHANGED <<bq_jobs, bq_cancelled>>
          ELSE IF CancelsJob(bq_jobs[job_id])
          THEN /\ bq_jobs' = queue_cancel(bq_jobs, job_id)
               /\ bq_cancelled' = bq_cancelled + 1
               /\ UNCHANGED bq_completed
          ELSE UNCHANGED <<bq_jobs, bq_cancelled, bq_completed>>
    /\ bq_index' = bq_index + 1
    /\ UNCHANGED <<bq_pc, bq_batch, bq_entry, bq_result>>
    /\ UNCHANGED exceptBatch

\* After the loop: batch.cancel(); Some((cancelled, completed))
BatchCancelFinish ==
    /\ bq_pc = "loop"
    /\ bq_index > Len(bq_batch[1].job_ids)
    /\ bq_batch' = <<batch_cancel(bq_batch[1])>>
    /\ bq_result' = << <<bq_cancelled, bq_completed>> >>
    /\ bq_pc' = "returned"
    /\ UNCHANGED <<bq_jobs, bq_entry, bq_index, bq_cancelled, bq_completed>>
    /\ UNCHANGED exceptBatch

(***************************************************************************)
(* Metrics collector: src/superbook-pdf/src/web/metrics.rs                 *)
(*                                                                         *)
(* Every fetch_add / fetch_sub is one atomic step of the calling thread;   *)
(* a call is the sequence of its atomic steps.  A thread records the start *)
(* of a job, then its completion or failure, as the tests do.              *)
(***************************************************************************)

\* MetricsCollector::new: the job counters
MetricsNew ==
    [total_jobs |-> 0, completed_jobs |-> 0, failed_jobs |-> 0, active_jobs |-> 0,
     total_processing_ms |-> 0, total_pages |-> 0]

\* AtomicU64::fetch_add / fetch_sub on one field
fetch_add(counters, field, n) == [counters EXCEPT ![field] = @ + n]

fetch_sub(counters, field, n) == [counters EXCEPT ![field] = @ - n]

\* The atomic operations of each method, in program order
record_job_started ==
    << [op |-> "add", field |-> "total_jobs", n |-> 1],
       [op |-> "add", field |-> "active_jobs", n |-> 1] >>

record_job_completed(duration_ms, pages) ==
    << [op |-> "add", field |-> "completed_jobs", n |-> 1],
       [op |-> "sub", field |-> "active_jobs", n |-> 1],
       [op |-> "add", field |-> "total_processing_ms", n |-> duration_ms],
       [op |-> "add", field |-> "total_pages", n |-> pages] >>

record_job_failed_keeping_active ==
    << [op |-> "add", field |-> "failed_jobs", n |-> 1] >>

record_job_failed ==
    << [op |-> "add", field |-> "failed_jobs", n |-> 1],
       [op |-> "sub", field |-> "active_jobs", n |-> 1] >>

\* MetricsCollector::get_job_statistics, the counts in it
get_job_statistics(counters, queued_jobs) ==
    [total_jobs |-> counters.total_jobs,
     completed_jobs |-> counters.completed_jobs,
     failed_jobs |-> counters.failed_jobs,
     active_jobs |-> counters.active_jobs,
     queued_jobs |-> queued_jobs,
     total_pages_processed |-> counters.total_pages]

MetricThreads == 1..MaxMetricThreads

IdleThread == [call |-> "none", todo |-> <<>>, job_started |-> FALSE, jobs |-> 0]

NoCalls == [started |-> 0, completed |-> 0, failed |-> 0]

MetricsInit ==
    /\ mt_counters = MetricsNew
    /\ mt_threads = [t \in MetricThreads |-> IdleThread]
    /\ mt_calls = NoCalls

MetricsIdle == MetricsInit

\* A thread enters record_job_started for its next job
CallJobStarted(t) ==
    /\ mt_threads[t].call = "none"
    /\ ~mt_threads[t].job_started
    /\ mt_threads[t].jobs < MaxJobsPerThread
    /\ mt_threads' = [mt_threads EXCEPT ![t].call = "started", ![t].todo = record_job_started]
    /\ UNCHANGED <<mt_counters, mt_calls>>
    /\ UNCHANGED exceptMet

\* A thread enters record_job_completed(100, 1) for the job it started
CallJobCompleted(t) ==
    /\ mt_threads[t].call = "none"
    /\ mt_threads[t].job_started
    /\ mt_threads' = [mt_threads EXCEPT ![t].call = "completed",
                                        ![t].todo = record_job_completed(100, 1)]
    /\ UNCHANGED <<mt_counters, mt_calls>>
    /\ UNCHANGED exceptMet

\* A thread enters record_job_failed for the job it started
CallJobFailed(t) ==
    /\ mt_threads[t].call = "none"
    /\ mt_threads[t].job_started
    /\ mt_threads' = [mt_threads EXCEPT ![t].call = "failed", ![t].todo = record_job_failed]
    /\ UNCHANGED <<mt_counters, mt_calls>>
    /\ UNCHANGED exceptMet

\* The next atomic operation of the call a thread is in
AtomicStep(t) ==
    /\ mt_threads[t].todo # <<>>
    /\ LET a == Head(mt_threads[t].todo)
       IN mt_counters' = IF a.op = "add" THEN fetch_add(mt_counters, a.field, a.n)
                         ELSE fetch_sub(mt_counters, a.field, a.n)
    /\ mt_threads' = [mt_threads EXCEPT ![t].todo = Tail(@)]
    /\ UNCHANGED mt_calls
    /\ UNCHANGED exceptMet

\* The call returns
ReturnFromCall(t) ==
    /\ mt_threads[t].call # "none"
    /\ mt_threads[t].todo = <<>>
    /\ mt_calls' = [mt_calls EXCEPT ![mt_threads[t].call] = @ + 1]
    /\ mt_threads' = [mt_threads EXCEPT
           ![t].call = "none",
           ![t].job_started = (mt_threads[t].call = "started"),
           ![t].jobs = IF mt_threads[t].call = "started" THEN @ ELSE @ + 1]
    /\ UNCHANGED mt_counters
    /\ UNCHANGED exceptMet

(***************************************************************************)
(* Job worker and cancellation: src/superbook-pdf/src/web/worker.rs,       *)
(* src/superbook-pdf/src/web/routes.rs                                     *)
(*                                                                         *)
(* One JobWorker takes Process messages and runs process_job; cancel_job   *)
(* requests arrive at any moment.  Job::start, Job::complete and Job::fail *)
(* (web/job.rs) are known through their callers and tests only: they set   *)
(* the status whatever it was.                                             *)
(***************************************************************************)

\* Job::start, Job::complete, Job::fail on the status of a job
job_start(status) == "Processing"

job_complete(status) == "Completed"

job_fail(status) == "Failed"

\* `job.status == JobStatus::Cancelled` after job.start() in process_job
SeenCancelled(status) == status = "Cancelled"

JobWorkerInit ==
    /\ jw_jobs = <<>>
    /\ jw_channel = <<>>
    /\ jw_pc = "recv"
    /\ jw_job = <<>>
    /\ jw_cancelled = {}

JobWorkerIdle == JobWorkerInit

\* A job is created, stored in the queue and handed to the worker:
\* queue.submit(job), then a Process message
SubmitJob ==
    /\ Len(jw_jobs) < MaxWorkerJobs
    /\ jw_jobs' = Append(jw_jobs, "Queued")
    /\ jw_channel' = Append(jw_channel, Len(jw_jobs) + 1)
    /\ UNCHANGED <<jw_pc, jw_job, jw_cancelled>>
    /\ UNCHANGED exceptJobWorker

\* routes::cancel_job(id) for a known job: state.queue.cancel(id)
CancelJob(id) ==
    /\ id \in DOMAIN jw_jobs
    /\ jw_jobs' = queue_cancel(jw_jobs, id)
    /\ jw_cancelled' = IF jw_jobs'[id] = "Cancelled" THEN jw_cancelled \cup {id}
                       ELSE jw_cancelled
    /\ UNCHANGED <<jw_channel, jw_pc, jw_job>>
    /\ UNCHANGED exceptJobWorker

\* JobWorker::run receives a Process message; process_job marks the job as
\* processing: queue.update(job_id, |job| job.start())
ProcessJobStart ==
    /\ jw_pc = "recv"
    /\ jw_channel # <<>>
    /\ jw_job' = <<Head(jw_channel)>>
    /\ jw_channel' = Tail(jw_channel)
    /\ jw_jobs' = [jw_jobs EXCEPT ![Head(jw_channel)] = job_start(@)]
    /\ jw_pc' = "started"
    /\ UNCHANGED jw_cancelled
    /\ UNCHANGED exceptJobWorker

\* process_job reads the job back: it returns if the job is Cancelled; else
\* it creates the output directory (a failure fails the job) and starts the
\* pipeline in a blocking task
ProcessJobCheck(dir_ok) ==
    /\ jw_pc = "started"
    /\ IF SeenCancelled(jw_jobs[jw_job[1]])
       THEN /\ jw_pc' = "recv"
            /\ jw_job' = <<>>
            /\ UNCHANGED jw_jobs
       ELSE IF ~dir_ok
       THEN /\ jw_jobs' = [jw_jobs EXCEPT ![jw_job[1]] = job_fail(@)]
            /\ jw_pc' = "recv"
            /\ jw_job' = <<>>
       ELSE /\ jw_pc' = "pipeline"
            /\ UNCHANGED <<jw_jobs, jw_job>>
    /\ UNCHANGED <<jw_channel, jw_cancelled>>
    /\ UNCHANGED exceptJobWorker

\* The blocking task ends: Ok(Ok(_)) completes the job, a pipeline error or
\* a panic of the task fails it
PipelineResult(outcome) ==
    /\ jw_pc = "pipeline"
    /\ jw_jobs' = [jw_jobs EXCEPT ![jw_job[1]] =
                      IF outcome = "ok" THEN job_complete(@) ELSE job_fail(@)]
    /\ jw_pc' = "recv"
    /\ jw_job' = <<>>
    /\ UNCHANGED <<jw_channel, jw_cancelled>>
    /\ UNCHANGED exceptJobWorker

(***************************************************************************)
(* Shutdown coordinator: src/superbook-pdf/src/web/shutdown.rs             *)
(*                                                                         *)
(* The coordinator and its clones share one tokio broadcast Sender and one *)
(* AtomicBool.  A broadcast Receiver sees the values sent after it was     *)
(* created by subscribe(); a send with no Receiver alive stores nothing.   *)
(***************************************************************************)

Waiters == 1..MaxWaiters

\* Receivers alive: the `rx` of the wait_for_shutdown calls under way
receiver_count == Cardinality({t \in Waiters : sc_waiters[t].pc = "waiting"})

\* broadcast::Sender::send(signal), its result ignored
broadcast_send(values, signal) ==
    IF receiver_count > 0 THEN Append(values, signal) ELSE values

\* Sender::subscribe: the position of the next value to be sent
subscribe(values) == Len(values) + 1

\* ShutdownCoordinator::new: an empty channel, the flag false
CoordinatorInit ==
    /\ sc_is_shutting_down = FALSE
    /\ sc_values = <<>>
    /\ sc_waiters = [t \in Waiters |-> [pc |-> "idle", next |-> 0, signal |-> <<>>]]
    /\ sc_triggers = 0

CoordinatorIdle == CoordinatorInit

\* trigger_shutdown on the coordinator or a clone
TriggerShutdown ==
    /\ sc_triggers < MaxTriggers
    /\ sc_is_shutting_down' = TRUE
    /\ sc_values' = broadcast_send(sc_values, "Graceful")
    /\ sc_triggers' = sc_triggers + 1
    /\ UNCHANGED sc_waiters
    /\ UNCHANGED exceptCoord

\* trigger_immediate on the coordinator or a clone
TriggerImmediate ==
    /\ sc_triggers < MaxTriggers
    /\ sc_is_shutting_down' = TRUE
    /\ sc_values' = broadcast_send(sc_values, "Immediate")
    /\ sc_triggers' = sc_triggers + 1
    /\ UNCHANGED sc_waiters
    /\ UNCHANGED exceptCoord

\* wait_for_shutdown is called: let mut rx = self.subscribe(), then
\* rx.recv() is awaited
WaitForShutdown(t) ==
    /\ sc_waiters[t].pc = "idle"
    /\ sc_waiters' = [sc_waiters EXCEPT ![t].pc = "waiting",
                                        ![t].next = subscribe(sc_values)]
    /\ UNCHANGED <<sc_is_shutting_down, sc_values, sc_triggers>>
    /\ UNCHANGED exceptCoord

\* rx.recv().await yields the next value sent after the subscription;
\* wait_for_shutdown returns it and drops rx
RecvSignal(t) ==
    /\ sc_waiters[t].pc = "waiting"
    /\ sc_waiters[t].next <= Len(sc_values)
    /\ sc_waiters' = [sc_waiters EXCEPT ![t].pc = "returned",
                                        ![t].signal = <<sc_values[sc_waiters[t].next]>>]
    /\ UNCHANGED <<sc_is_shutting_down, sc_values, sc_triggers>>
    /\ UNCHANGED exceptCoord

(***************************************************************************)
(* Shadow detection: src/superbook-pdf/src/margin/shadow.rs                *)
(*                                                                         *)
(* detect_edge_shadow up to the end of calculate_brightness_profile, one   *)
(* step per pixel read.  Pixel values are left out: only the coordinates   *)
(* passed to image.get_pixel matter here.                                  *)
(***************************************************************************)

EDGE_SAMPLE_WIDTH_PERCENT == 15

SAMPLE_ROWS == 50

\* Edge::all()
ShadowEdges == {"Left", "Right", "Top", "Bottom"}

\* ((width as f32 * sample_width_percent / 100.0) as u32).max(10)
sample_width(width, percent) ==
    LET scaled == (width * percent) \div 100
    IN IF scaled > 10 THEN scaled ELSE 10

\* SAMPLE_ROWS.min(height)
sample_count(height) == IF SAMPLE_ROWS < height THEN SAMPLE_ROWS ELSE height

\* height / sample_count
row_step(height) == height \div sample_count(height)

\* (row_idx * row_step).min(height - 1)
sample_y(row_idx, height) ==
    IF row_idx * row_step(height) < height - 1 THEN row_idx * row_step(height)
    ELSE height - 1

\* The `match edge` giving x: <<x>>, or <<>> when `width - 1 - i` goes below
\* zero in u32
sample_x(edge, i, width) ==
    IF edge = "Left" THEN <<i>>
    ELSE IF edge = "Right" THEN (IF width - 1 - i >= 0 THEN <<width - 1 - i>> ELSE <<>>)
    ELSE <<IF i < width - 1 THEN i ELSE width - 1>>

\* image.get_pixel(x, y) panics outside the image
InImage(image, x, y) == x < image.width /\ y < image.height

ShadowInit(image, edge) ==
    /\ sh_pc = "input"
    /\ sh_image = image
    /\ sh_edge = edge
    /\ sh_sample_width = 0
    /\ sh_i = 0
    /\ sh_row_idx = 0
    /\ sh_sample = <<>>

ShadowIdle == ShadowInit([width |-> 1, height |-> 1], "Left")

\* detect_edge_shadow computes sample_width; calculate_brightness_profile
\* computes sample_count and row_step (a division) and enters its loops
DetectEdgeShadow(percent) ==
    /\ sh_pc = "input"
    /\ sh_sample_width' = sample_width(sh_image.width, percent)
    /\ IF sample_count(sh_image.height) = 0
       THEN /\ sh_pc' = "panicked"
            /\ sh_sample' = <<[kind |-> "division_by_zero"]>>
       ELSE /\ sh_pc' = "profile"
            /\ sh_sample' = sh_sample
    /\ UNCHANGED <<sh_image, sh_edge, sh_i, sh_row_idx>>
    /\ UNCHANGED exceptShadow

\* One pass of the inner loop: x, y and image.get_pixel(x, y).  With
\* overflow checks the subtraction below zero panics; without them x wraps
\* to a value near 2^32, which is outside every image.
SamplePixel ==
    /\ sh_pc = "profile"
    /\ LET x == sample_x(sh_edge, sh_i, sh_image.width)
           y == sample_y(sh_row_idx, sh_image.height)
           last_row == sh_row_idx + 1 = sample_count(sh_image.height)
       IN IF x = <<>>
          THEN /\ sh_pc' = "panicked"
               /\ \E kind \in {"subtract_with_overflow", "out_of_bounds"} :
                      sh_sample' = <<[kind |-> kind]>>
               /\ UNCHANGED <<sh_i, sh_row_idx>>
          ELSE IF ~InImage(sh_image, x[1], y)
          THEN /\ sh_pc' = "panicked"
               /\ sh_sample' = <<[kind |-> "out_of_bounds"]>>
               /\ UNCHANGED <<sh_i, sh_row_idx>>
          ELSE /\ sh_sample' = <<[kind |-> "read", x |-> x[1], y |-> y]>>
               /\ sh_row_idx' = IF last_row THEN 0 ELSE sh_row_idx + 1
               /\ sh_i' = IF last_row THEN sh_i + 1 ELSE sh_i
               /\ sh_pc' = IF last_row /\ sh_i + 1 = sh_sample_width
                           THEN "returned" ELSE "profile"
    /\ UNCHANGED <<sh_image, sh_edge, sh_sample_width>>
    /\ UNCHANGED exceptShadow

(***************************************************************************)
(* Specifications                                                          *)
(***************************************************************************)
\* Every component but c is idle
IdleExcept(c) ==
    /\ IF c = "conv" THEN TRUE ELSE ConvertIdle
    /\ IF c = "off" THEN TRUE ELSE OffsetIdle
    /\ IF c = "grp" THEN TRUE ELSE GroupIdle
    /\ IF c = "pool" THEN TRUE ELSE PoolIdle
    /\ IF c = "sd" THEN TRUE ELSE ShutdownIdle
    /\ IF c \in {"store", "rec"} THEN TRUE ELSE StoreIdle
    /\ IF c = "rec" THEN TRUE ELSE RecoveryIdle
    /\ IF c = "det" THEN TRUE ELSE DetectIdle
    /\ IF c = "blur" THEN TRUE ELSE BlurIdle
    /\ IF c = "mrk" THEN TRUE ELSE MarkerIdle
    /\ IF c = "vd" THEN TRUE ELSE VdIdle
    /\ IF c = "bq" THEN TRUE ELSE BatchIdle
    /\ IF c = "mt" THEN TRUE ELSE MetricsIdle
    /\ IF c = "jw" THEN TRUE ELSE JobWorkerIdle
    /\ IF c = "sc" THEN TRUE ELSE CoordinatorIdle
    /\ IF c = "sh" THEN TRUE ELSE ShadowIdle

InitConvert ==
    /\ \E a \in ArgsSet : ConvertInit(a)
    /\ IdleExcept("conv")

NextConvert ==
    \/ StartConvert
    \/ ProcessBook
    \/ FinishConvert

SpecConvert == InitConvert /\ [][NextConvert]_vars

InitOffset ==
    /\ OffsetIdle
    /\ IdleExcept("off")

\* The analyser on short lists of freely chosen detections.
NextOffsetScan ==
    \/ AddDetection
    \/ Analyze

SpecOffsetScan == InitOffset /\ [][NextOffsetScan]_vars

\* The analyser on books: unnumbered front matter, numbered body, back matter.
NextOffset ==
    \/ AddUnnumberedPage
    \/ AddNumberedPage
    \/ Analyze

SpecOffset == InitOffset /\ [][NextOffset]_vars


\* Books with pages missing from the detection list, analysed and interpolated
NextInterpolate ==
    \/ AddDetectedPage
    \/ Analyze
    \/ Interpolate

SpecInterpolate == InitOffset /\ [][NextInterpolate]_vars

InitGroup ==
    /\ GroupIdle
    /\ IdleExcept("grp")

NextGroup ==
    \/ AddBox
    \/ Decide

SpecGroup == InitGroup /\ [][NextGroup]_vars

InitPool ==
    /\ \E n \in 0..MaxWorkers : PoolInit(n)
    /\ IdleExcept("pool")

NextPool ==
    \/ Submit
    \/ Shutdown
    \/ DropPool
    \/ \E w \in Workers : LockReceiver(w)
    \/ \E w \in Workers : RecvProcess(w)
    \/ \E w \in Workers : RecvShutdownOrClosed(w)
    \/ \E w \in Workers : FinishJob(w)

SpecPool == InitPool /\ [][NextPool]_vars

\* The runtime keeps running every spawned task that can take a step, and a
\* job's pipeline finishes; callers of the pool are under no obligation.
SpecPoolFair ==
    SpecPool /\ \A w \in 1..MaxWorkers : WF_vars(w \in Workers /\ WorkerStep(w))

InitShutdown ==
    /\ \E t \in 0..MaxTimeoutSecs, wj \in BOOLEAN :
         ShutdownInit([timeout_secs |-> t, wait_for_jobs |-> wj])
    /\ IdleExcept("sd")

NextShutdown ==
    \/ ReturnWithoutWaiting
    \/ PollPending
    \/ Sleep

SpecShutdown == InitShutdown /\ [][NextShutdown]_vars

\* The poll future completes and the timer fires
SpecShutdownFair == SpecShutdown /\ WF_vars(NextShutdown)

InitRecovery ==
    /\ \E st \in InitialStores, max \in 0..MaxMaxRetries :
         /\ StoreInit(StoreOf(st))
         /\ RecoveryInit(Cardinality(DOMAIN st) + 1, max)
    /\ IdleExcept("rec")

NextRecovery ==
    \/ RecoverOnStartup
    \/ RequeueProcessing
    \/ RetryFailed
    \/ JobFailsAgain

SpecRecovery == InitRecovery /\ [][NextRecovery]_vars

InitStore ==
    /\ \E c \in {<<>>} \cup {CacheInsert(<<>>, job) : job \in TimedJobs} : StoreInit(c)
    /\ IdleExcept("store")

NextStore ==
    \/ \E t \in Threads : SaveInsert(t)
    \/ \E t \in Threads : DeleteRemove(t)
    \/ \E t \in Threads : MarkDirtyAndReturn(t)
    \/ \E t \in Threads : CleanupRetain(t)
    \/ \E t \in Threads : CleanupReturn(t)
    \/ \E t \in Threads : FlushLock(t)
    \/ \E t \in Threads : FlushWrite(t)
    \/ \E t \in Threads : FlushFail(t)
    \/ \E t \in Threads : FlushClearDirty(t)
    \/ \E t \in Threads : FlushReturn(t)

SpecStore == InitStore /\ [][NextStore]_vars

InitMissing ==
    /\ DetectIdle
    /\ IdleExcept("det")

NextMissing ==
    \/ AddNumber
    \/ FindMissing

SpecMissing == InitMissing /\ [][NextMissing]_vars

InitRoman ==
    /\ \/ \E n \in 1..MaxRoman : DetectInit(to_roman(n), n)
       \/ \E text \in ShortTexts \cup TestTexts : DetectInit(text, 0)
    /\ IdleExcept("det")

NextRoman == ParseRoman

SpecRoman == InitRoman /\ [][NextRoman]_vars

InitDeblur ==
    /\ \E img \in BlurImages(BlurImageWidth, BlurImageHeight), exists \in BOOLEAN,
          alg \in DeblurAlgorithms, auto \in BOOLEAN, threshold \in BlurThresholds :
           BlurInit(img, exists,
                    [algorithm |-> alg, auto_detect |-> auto, blur_threshold |-> threshold])
    /\ IdleExcept("blur")

NextDeblur ==
    \/ Process
    \/ ProcessInPlace

SpecDeblur == InitDeblur /\ [][NextDeblur]_vars

InitMarker ==
    /\ \E img \in MarkerImages(MarkerImageWidth, MarkerImageHeight), preserve \in BOOLEAN,
          threshold \in MarkerThresholds :
           MarkerInit(img, [colors |-> AllColors, strength |-> DefaultStrength,
                            preserve_text_edges |-> preserve, edge_threshold |-> threshold])
    /\ IdleExcept("mrk")

NextMarker == RemoveInPlace

SpecMarker == InitMarker /\ [][NextMarker]_vars

InitVertical ==
    /\ \E img \in GrayImages(MaxSide), bc \in 1..MaxBlockCount :
           VdInit(img, [black_threshold |-> 128, block_count |-> bc])
    /\ IdleExcept("vd")

NextVertical ==
    \/ DetectVertical
    \/ DetectRotated

SpecVertical == InitVertical /\ [][NextVertical]_vars

InitBatch ==
    /\ \/ BatchInit(<<>>)
       \/ \E status \in {"Queued", "Processing"} : BatchInit(<<BatchJobNew(status)>>)
    /\ IdleExcept("bq")

NextBatch ==
    \/ AddBatchJob
    \/ BatchCancelStart
    \/ BatchCancelVisit
    \/ BatchCancelFinish

SpecBatch == InitBatch /\ [][NextBatch]_vars

InitMetrics ==
    /\ MetricsInit
    /\ IdleExcept("mt")

NextMetrics ==
    \/ \E t \in MetricThreads :
         \/ CallJobStarted(t)
         \/ CallJobCompleted(t)
         \/ CallJobFailed(t)
         \/ AtomicStep(t)
         \/ ReturnFromCall(t)

SpecMetrics == InitMetrics /\ [][NextMetrics]_vars

InitJobWorker ==
    /\ JobWorkerInit
    /\ IdleExcept("jw")

NextJobWorker ==
    \/ SubmitJob
    \/ \E id \in 1..MaxWorkerJobs : CancelJob(id)
    \/ ProcessJobStart
    \/ \E dir_ok \in BOOLEAN : ProcessJobCheck(dir_ok)
    \/ \E outcome \in {"ok", "error", "panic"} : PipelineResult(outcome)

SpecJobWorker == InitJobWorker /\ [][NextJobWorker]_vars

InitCoordinator ==
    /\ CoordinatorInit
    /\ IdleExcept("sc")

NextCoordinator ==
    \/ TriggerShutdown
    \/ TriggerImmediate
    \/ \E t \in Waiters : WaitForShutdown(t)
    \/ \E t \in Waiters : RecvSignal(t)

SpecCoordinator == InitCoordinator /\ [][NextCoordinator]_vars

\* The runtime polls a task again once the value it waits for is sent;
\* nobody is obliged to call trigger_* or wait_for_shutdown.
SpecCoordinatorFair ==
    SpecCoordinator /\ \A t \in Waiters : WF_vars(RecvSignal(t))

\* Images up to MaxShadowWidth x MaxShadowHeight, and taller ones where
\* row_step is 2
ShadowHeights == (1..MaxShadowHeight) \cup {2 * SAMPLE_ROWS + MaxShadowHeight}

InitShadow ==
    /\ \E w \in 1..MaxShadowWidth, h \in ShadowHeights, edge \in ShadowEdges :
           ShadowInit([width |-> w, height |-> h], edge)
    /\ IdleExcept("sh")

NextShadow ==
    \/ \E percent \in {EDGE_SAMPLE_WIDTH_PERCENT, 100} : DetectEdgeShadow(percent)
    \/ SamplePixel

SpecShadow == InitShadow /\ [][NextShadow]_vars

(***************************************************************************)
(* Properties of the convert run                                           *)
(***************************************************************************)
AttemptedBooks == 1..Len(books)

FailedBooks == {i \in AttemptedBooks : books[i].outcome = "failed"}

SucceededBooks == {i \in AttemptedBooks : books[i].outcome = "ok"}

NoPdfInput == ~input_exists \/ (collected = "ok" /\ pdf_files = 0)

\* C1 (as stated): a convert run exits with code 2 when the input path does not
\* exist or holds no PDF, with code 1 when at least one book failed, and with
\* code 0 in every other case.
C1_ExitCodesAsStated ==
    cpc = "exited" =>
        exit_status = << IF NoPdfInput THEN INPUT_NOT_FOUND
                         ELSE IF FailedBooks # {} THEN GENERAL_ERROR
                         ELSE SUCCESS >>

\* C1 (amended): a convert run exits with code 2 when the input path does not
\* exist or holds no PDF; with code 1 when at least one book failed or when
\* listing the input directory or creating the output directory failed; and
\* with code 0 in every other case.
C1_ExitCodes ==
    cpc = "exited" =>
        exit_status = << IF NoPdfInput THEN INPUT_NOT_FOUND
                         ELSE IF \/ FailedBooks # {}
                                 \/ collected = "err"
                                 \/ dir_created = "err" THEN GENERAL_ERROR
                         ELSE SUCCESS >>

\* C1 witness: a run over two books, the first failed and the second did not,
\* has exited with the general error code.
C1_Witness ==
    /\ cpc = "exited"
    /\ pdf_files = 2
    /\ Len(books) = 2
    /\ books[1].outcome = "failed"
    /\ books[2].outcome = "ok"
    /\ exit_status = <<GENERAL_ERROR>>

\* C2 (as stated): in a convert run over a list of books every book of the list
\* is attempted, and the run exits with code 1 only after the last book has
\* been attempted.
C2_AllBooksAttemptedAsStated ==
    /\ (cpc = "exited" /\ collected = "ok" => Len(books) = pdf_files)
    /\ (exit_status = <<GENERAL_ERROR>> => Len(books) = pdf_files)

\* C2 (amended): in a convert run that reaches the processing loop (the input
\* was listed, it is not a dry run and the output directory was created) every
\* book of the list is attempted even when an earlier book fails, and the run
\* exits, with code 1 when a book failed, only after the last book has been
\* attempted.
C2_AllBooksAttempted ==
    cpc = "exited" /\ dir_created = "ok" =>
        /\ Len(books) = pdf_files
        /\ (FailedBooks # {} => exit_status = <<GENERAL_ERROR>>)

\* C2 witness: the first of two books failed, the second was still attempted,
\* and the run then exited with code 1.
C2_Witness ==
    /\ cpc = "exited"
    /\ pdf_files = 2
    /\ Len(books) = 2
    /\ books[1].outcome = "failed"
    /\ books[2].outcome \in {"ok", "skipped"}
    /\ exit_status = <<GENERAL_ERROR>>
    /\ error_count = 1

\* C3 (as stated): an attempted book is skipped if and only if force is not
\* set, its output exists and its cache file exists, parses and matches the
\* current input; in every other case it is processed.
C3_SkipIffCacheHitAsStated ==
    \A i \in AttemptedBooks :
        (books[i].outcome = "skipped") <=>
            (~args.force /\ books[i].output_exists /\ books[i].cache = "fresh")

\* C3 (amended): without skip_existing an attempted book is skipped if and only
\* if force is not set, its output exists and its cache file exists, parses and
\* matches the current input; with skip_existing it is skipped if and only if
\* force is not set and its output exists, whatever the cache; in every other
\* case it is processed.
C3_SkipIffCacheHit ==
    \A i \in AttemptedBooks :
        /\ books[i].outcome \in {"skipped", "ok", "failed"}
        /\ (books[i].outcome = "skipped") <=>
              IF args.skip_existing
              THEN ~args.force /\ books[i].output_exists
              ELSE ~args.force /\ books[i].output_exists
                   /\ books[i].cache = "fresh"

\* C3 witness: without skip_existing and force, one book with a matching cache
\* was skipped and one whose cache is stale was processed although its output
\* exists.
C3_Witness ==
    /\ ~args.skip_existing
    /\ ~args.force
    /\ Len(books) = 2
    /\ books[1].outcome = "skipped"
    /\ books[1].cache = "fresh"
    /\ books[2].outcome = "ok"
    /\ books[2].output_exists
    /\ books[2].cache = "stale"

\* C4: a book that was processed successfully counts as successful even when
\* computing the digest or writing the cache file failed: error_count counts
\* exactly the books whose processing failed, ok_count the books whose
\* processing succeeded, and the exit code after the loop is 1 only if some
\* book's processing failed.
C4_CacheSaveBestEffort ==
    /\ error_count = Cardinality(FailedBooks)
    /\ ok_count = Cardinality(SucceededBooks)
    /\ (cpc = "exited" /\ dir_created = "ok" =>
            exit_status = << IF FailedBooks # {} THEN GENERAL_ERROR ELSE SUCCESS >>)

\* C4 witness: a run exited with success although the digest of one book could
\* not be computed and the cache file of another could not be written.
C4_Witness ==
    /\ cpc = "exited"
    /\ Len(books) = 2
    /\ books[1].outcome = "ok"
    /\ books[1].digest = "err"
    /\ books[2].outcome = "ok"
    /\ books[2].save = "err"
    /\ ~books[1].cache_written
    /\ ~books[2].cache_written
    /\ error_count = 0
    /\ exit_status = <<SUCCESS>>

\* C23: a processing cache record is created only on successful completion
\* of a book: in a convert run, a book whose processing failed, or that was
\* skipped, never causes a cache save.
C23_CacheSavedOnlyOnSuccess ==
    \A i \in 1..Len(books) :
        books[i].outcome \in {"failed", "skipped"} =>
            /\ ~books[i].cache_written
            /\ books[i].save = "na"

\* A run over a skipped book and a failed book that has ended: no cache file
\* was written and the run reports the failure
C23_Witness ==
    /\ cpc = "exited"
    /\ Len(books) = 2
    /\ books[1].outcome = "skipped"
    /\ books[2].outcome = "failed"
    /\ ~books[1].cache_written
    /\ ~books[2].cache_written
    /\ exit_status = <<GENERAL_ERROR>>

\* The successful book next to a failed one does get its cache record
C23_SavedAfterSuccess ==
    /\ Len(books) = 2
    /\ books[1].outcome = "failed"
    /\ books[2].outcome = "ok"
    /\ books[2].cache_written

(***************************************************************************)
(* Properties of the page offset analyser                                  *)
(***************************************************************************)
AllOffsetsZero ==
    \A i \in 1..Len(analysis.page_offsets) :
        /\ analysis.page_offsets[i].shift_x = 0
        /\ analysis.page_offsets[i].shift_y = 0

\* C5: for a detection list of length n, when the best shift has fewer than 5
\* matches or fewer than n/3 matches, analyze_offsets abandons: every returned
\* page offset is (0, 0), the shift is 0 and the confidence is 0.
C5_AbandonOnFewMatches ==
    opc = "analyzed" /\ (best.count < 5 \/ 3 * best.count < Len(detections)) =>
        /\ AllOffsetsZero
        /\ analysis.page_number_shift = 0
        /\ analysis.confidence.num = 0

\* C5 witness: a book of 16 pages whose best shift is 2 with 5 matches, which
\* is at least 5 but fewer than 16/3, was analysed and abandoned.
C5_Witness ==
    /\ opc = "analyzed"
    /\ Len(detections) = 16
    /\ best.count = 5
    /\ best.shift = 2
    /\ Len(analysis.page_offsets) = 16
    /\ analysis.page_number_shift = 0
    /\ analysis.confidence.num = 0

ValidBoxes == {i \in 1..Len(bounding_boxes) : bounding_boxes[i].width > 0 /\ bounding_boxes[i].height > 0}

RegionRect == [left |-> region.left, top |-> region.top,
               width |-> region.width, height |-> region.height]

\* The region is the rectangle of medians over exactly the boxes idxs
RegionComputedFrom(idxs) ==
    /\ selection.use_inliers = idxs
    /\ RegionRect = MedianRect(bounding_boxes, idxs)
    /\ region.inlier_count = Cardinality(idxs)

\* C7 as the specification states it: fall back to all valid boxes exactly
\* when fewer than 3 boxes are Tukey inliers or fewer than 1/3 of the valid
\* boxes are; otherwise the rectangle is computed from the inliers only.
C7_FallbackAsStated ==
    (gpc = "decided" /\ ValidBoxes # {}) =>
        LET ni == Cardinality(selection.inliers)
            nv == Cardinality(ValidBoxes)
        IN IF ni < 3 \/ 3 * ni < nv
           THEN RegionComputedFrom(ValidBoxes)
           ELSE RegionComputedFrom(selection.inliers)

\* C7 amended: group crop falls back to all valid bounding boxes exactly when
\* the Tukey inlier count is below 3 or the inlier ratio is below 1/2;
\* otherwise the crop rectangle is computed from the inliers only.
C7_FallbackHalfRatio ==
    (gpc = "decided" /\ ValidBoxes # {}) =>
        LET ni == Cardinality(selection.inliers)
            nv == Cardinality(ValidBoxes)
        IN IF ni < 3 \/ 2 * ni < nv
           THEN RegionComputedFrom(ValidBoxes)
           ELSE RegionComputedFrom(selection.inliers)

\* Three inliers among seven valid boxes: at least 1/3, less than 1/2, and the
\* region is computed from all seven.
C7_Witness ==
    /\ gpc = "decided"
    /\ Cardinality(ValidBoxes) = 7
    /\ Cardinality(selection.inliers) = 3
    /\ region.inlier_count = 7

\* Tukey fences of edge e over the valid boxes, by the quartiles of the source
BelowLowerFence(i, e) ==
    LET q == calculate_iqr(SortedEdges(bounding_boxes, ValidBoxes, e))
    IN 8 * Edge(bounding_boxes[i], e) < 2 * q.q1 - 3 * q.iqr

AboveUpperFence(i, e) ==
    LET q == calculate_iqr(SortedEdges(bounding_boxes, ValidBoxes, e))
    IN 8 * Edge(bounding_boxes[i], e) > 2 * q.q3 + 3 * q.iqr

OutlierPages ==
    {i \in ValidBoxes : \E e \in EdgeNames : BelowLowerFence(i, e) \/ AboveUpperFence(i, e)}

\* Page p is the single outlier of the list, with an edge beyond Q3 + 1.5 * IQR,
\* and the other valid pages are enough not to trigger the fallback
SingleUpperOutlier(p) ==
    /\ OutlierPages = {p}
    /\ \E e \in EdgeNames : AboveUpperFence(p, e)
    /\ Cardinality(ValidBoxes \ {p}) >= 3
    /\ 3 * Cardinality(ValidBoxes \ {p}) >= Cardinality(ValidBoxes)

\* C8: when a single page is an outlier with an edge beyond Q3 + 1.5 * IQR and
\* the fallback is not triggered, the page is excluded and the rectangle is
\* the one computed from the other valid pages alone.
C8_SingleOutlierExcluded ==
    gpc = "decided" =>
        \A p \in ValidBoxes :
            SingleUpperOutlier(p) =>
                /\ p \notin selection.use_inliers
                /\ RegionRect = MedianRect(bounding_boxes, ValidBoxes \ {p})
                /\ region.inlier_count = Cardinality(ValidBoxes) - 1

\* A single outlier page that would have moved the rectangle had it been kept
C8_Witness ==
    /\ gpc = "decided"
    /\ \E p \in ValidBoxes :
         /\ SingleUpperOutlier(p)
         /\ p \notin selection.use_inliers
         /\ MedianRect(bounding_boxes, ValidBoxes) # RegionRect

\* The list holds one and the same valid rectangle on every page
IdenticalValidBoxes ==
    /\ bounding_boxes # <<>>
    /\ ValidBoxes = 1..Len(bounding_boxes)
    /\ \A i \in 1..Len(bounding_boxes) :
         KindOf(bounding_boxes[i]) = KindOf(bounding_boxes[1])

\* C21: group crop on a list of identical valid bounding boxes, of any length
\* from 1 on, returns that same rectangle with inlier_count equal to
\* total_count.
C21_IdenticalBoxesReturned ==
    (gpc = "decided" /\ IdenticalValidBoxes) =>
        /\ RegionRect = [left |-> bounding_boxes[1].x, top |-> bounding_boxes[1].y,
                         width |-> bounding_boxes[1].width,
                         height |-> bounding_boxes[1].height]
        /\ region.inlier_count = region.total_count
        /\ region.total_count = Len(bounding_boxes)

\* Four identical pages: an even length, at which the median is a mean of two
C21_Witness ==
    /\ gpc = "decided"
    /\ IdenticalValidBoxes
    /\ Len(bounding_boxes) = 4
    /\ region.left = 100 /\ region.width = 800
    /\ region.inlier_count = 4

\* C22: every region returned by group crop, for any input list including
\* lists with zero-area boxes and lists that trigger the fallback, has
\* inlier_count <= total_count.
C22_InliersAtMostTotal ==
    gpc = "decided" => region.inlier_count <= region.total_count

\* A list with a zero-area box on which the fallback to all valid boxes was
\* taken: fewer boxes used than pages, more than the Tukey inliers
C22_Witness ==
    /\ gpc = "decided"
    /\ ValidBoxes # 1..Len(bounding_boxes)
    /\ selection.inliers # ValidBoxes
    /\ selection.use_inliers = ValidBoxes
    /\ region.inlier_count = Cardinality(ValidBoxes)
    /\ region.inlier_count > Cardinality(selection.inliers)
    /\ region.inlier_count < region.total_count

\* The empty list and the list without a valid box give the default region
C22_DefaultRegionWitness ==
    /\ gpc = "decided"
    /\ bounding_boxes # <<>>
    /\ ValidBoxes = {}
    /\ region = DefaultRegion

(***************************************************************************)
(* Properties of the worker pool                                           *)
(***************************************************************************)

AllWorkersExited == \A w \in Workers : worker_pc[w] = "exited"

\* C9: WorkerPool::shutdown shuts down all workers: for every worker_count >= 1,
\* once shutdown has been called every worker task of the pool eventually
\* exits (after finishing its current job).
C9_ShutdownStopsAllWorkers ==
    (worker_count >= 1 /\ shutdown_calls > 0) ~> AllWorkersExited

\* With a single worker the one Shutdown message does reach every worker.
C9_SingleWorkerExits ==
    (worker_count = 1 /\ shutdown_calls > 0) ~> AllWorkersExited

\* In how many places job j is: waiting in the channel, held by a worker
\* running process_job, or processed
JobPlaces(j) ==
    Cardinality({i \in DOMAIN channel : channel[i] = ProcessMsg(j)})
    + Cardinality({w \in Workers : worker_job[w] = j})
    + (IF j \in finished_jobs THEN 1 ELSE 0)

\* WorkerPool::submit has just returned Ok for job j, shutdown not yet called
SubmittedBeforeShutdown(j) ==
    /\ next_job_id = j + 1
    /\ last_submit = "ok"
    /\ shutdown_calls = 0

\* C27: every job whose WorkerPool::submit returned Ok before shutdown was
\* called is processed by exactly one worker: from then on it is in exactly
\* one place (the channel, one worker, or the processed jobs), so no second
\* worker takes it, and it is eventually processed, so it is not dropped.
C27_SubmittedJobProcessedOnce ==
    \A j \in 1..MaxJobs :
        /\ [](SubmittedBeforeShutdown(j) => [](JobPlaces(j) = 1))
        /\ SubmittedBeforeShutdown(j) ~> (j \in finished_jobs)

\* Two workers, two jobs submitted, then shutdown: one worker has exited on
\* the Shutdown message and both jobs are processed
C27_Witness ==
    /\ worker_count = 2
    /\ shutdown_calls = 1
    /\ finished_jobs = {1, 2}
    /\ \E w \in Workers : worker_pc[w] = "exited"
    /\ JobPlaces(1) = 1
    /\ JobPlaces(2) = 1

\* Two workers each hold one of two jobs at the same time
TwoWorkersTwoJobs ==
    /\ worker_count = 2
    /\ worker_job[1] # 0
    /\ worker_job[2] # 0
    /\ worker_job[1] # worker_job[2]

\* A job submitted after shutdown was called may stay in the channel for ever
SubmittedAfterShutdownProcessed ==
    (next_job_id = 2 /\ last_submit = "ok" /\ shutdown_calls = 1) ~> (1 \in finished_jobs)

(***************************************************************************)
(* Properties of graceful shutdown                                         *)
(***************************************************************************)

\* What graceful_shutdown may have returned, and when it may still be running
ShutdownResultJustified ==
    /\ (sd_pc = "returned" /\ ~config.wait_for_jobs) =>
           (result = <<[kind |-> "Success"]>> /\ pending = <<>> /\ elapsed = 0)
    /\ (sd_pc = "returned" /\ config.wait_for_jobs) =>
           \/ result = <<[kind |-> "Success"]>> /\ pending = <<0>>
           \/ /\ pending # <<>>
              /\ pending[1] > 0
              /\ result = <<[kind |-> "Timeout", pending_jobs |-> pending[1]]>>
              /\ elapsed >= config.timeout_secs * 10
    /\ sd_pc \in {"sleep", "polling"} =>
           /\ config.wait_for_jobs
           /\ result = <<>>
           /\ pending # <<>>
           /\ pending[1] > 0
    /\ sd_pc = "sleep" => elapsed < config.timeout_secs * 10

\* C10: graceful_shutdown always terminates.  With wait_for_jobs enabled it
\* returns Success as soon as a poll reports 0 pending jobs, and otherwise
\* Timeout with the last polled count once the timeout has elapsed (it keeps
\* polling only while the last poll was non-zero and the timeout had not
\* elapsed); with wait_for_jobs disabled it returns Success without polling.
C10_GracefulShutdownTerminates ==
    /\ []ShutdownResultJustified
    /\ <>(sd_pc = "returned")

\* The function waited through the whole timeout and returned Timeout with
\* the count of the last poll
C10_Witness ==
    /\ sd_pc = "returned"
    /\ config = [timeout_secs |-> 1, wait_for_jobs |-> TRUE]
    /\ result = <<[kind |-> "Timeout", pending_jobs |-> 2]>>
    /\ elapsed >= 10

(***************************************************************************)
(* Properties of the recovery manager                                      *)
(***************************************************************************)

\* C11: over any sequence of retry_failed(max_retries) calls interleaved with
\* jobs failing again, no input file is requeued for retry more than
\* max_retries times.
C11_RetriesBounded ==
    \A f \in DOMAIN requeues : requeues[f] <= max_retries

\* C11, second half: a call of retry_failed requeues nothing for a stored job
\* that is not Failed: every job it adds to the queue is the retry of a
\* stored Failed job.
C11_OnlyFailedRequeued ==
    [][next_uuid' > next_uuid =>
          \A n \in DOMAIN job_queue' \ DOMAIN job_queue :
              \E id \in DOMAIN store_cache :
                  /\ store_cache[id].status = "Failed"
                  /\ store_cache[id].input_filename = job_queue'[n].input_filename]_vars

\* C12: after recover_on_startup returns, each non-terminal stored job is in
\* the job queue, each job that was Processing is queued to be run again
\* (its status in the queue is Queued), and result.recovered /
\* result.requeued are the numbers of non-terminal / Processing stored jobs.
C12_RecoveredAndRequeued ==
    [][RecoverOnStartup =>
          /\ \A id \in DOMAIN store_cache :
                 ~(store_cache[id].status \in {"Completed", "Failed", "Cancelled"})
                     => id \in DOMAIN job_queue'
          /\ \A id \in DOMAIN store_cache :
                 store_cache[id].status = "Processing"
                     => (id \in DOMAIN job_queue' /\ job_queue'[id].status = "Queued")
          /\ recovery'[1].recovered =
                 Cardinality({id \in DOMAIN store_cache :
                     store_cache[id].status \in {"Queued", "Processing"}})
          /\ recovery'[1].requeued =
                 Cardinality({id \in DOMAIN store_cache :
                     store_cache[id].status = "Processing"})]_vars

\* The parts of C12 about membership and counts, without the status of the
\* requeued jobs
C12_RecoveredCounted ==
    [][RecoverOnStartup =>
          /\ \A id \in DOMAIN store_cache :
                 ~(store_cache[id].status \in {"Completed", "Failed", "Cancelled"})
                     => (id \in DOMAIN job_queue' /\ job_queue'[id] = store_cache[id])
          /\ recovery'[1].recovered =
                 Cardinality({id \in DOMAIN store_cache :
                     store_cache[id].status \in {"Queued", "Processing"}})
          /\ recovery'[1].requeued =
                 Cardinality({id \in DOMAIN store_cache :
                     store_cache[id].status = "Processing"})]_vars

(***************************************************************************)
(* Properties of JsonJobStore                                              *)
(***************************************************************************)

\* No method is between changing the cache and marking it dirty: the
\* in-memory job set can be read
CacheObservable == cache_writer = 0

AnalysisAbandoned ==
    \/ Len(detections) = 0
    \/ best.count < 5
    \/ 3 * best.count < Len(detections)

\* C14: for every detection list of length n, the analysis returned by
\* analyze_offsets satisfies is_reliable(n) if and only if the analysis was
\* not abandoned.
C14_ReliableIffNotAbandoned ==
    opc = "analyzed" =>
        (is_reliable(analysis, Len(detections)) <=> ~AnalysisAbandoned)

\* A book of 15 pages analysed on exactly 5 matches, a third of its pages
C14_Witness ==
    /\ opc = "analyzed"
    /\ Len(detections) = 15
    /\ best.count = 5
    /\ analysis.match_count = 5
    /\ is_reliable(analysis, 15)

\* Pages of the book with an entry in the detection list
DetectedPages == {detections[i].page_index + 1 : i \in 1..Len(detections)}

DetectedNumbers == {numbers[i] : i \in 1..Len(numbers)}

ReportedMissing == {missing_pages[i] : i \in 1..Len(missing_pages)}

\* The integers between the least and the greatest detected number that
\* were not detected
AbsentNumbers ==
    {n \in -1..MaxNumber + 1 :
        /\ n \notin DetectedNumbers
        /\ \E lo \in DetectedNumbers : lo < n
        /\ \E hi \in DetectedNumbers : n < hi}

LeastDetected == CHOOSE n \in DetectedNumbers : \A k \in DetectedNumbers : n <= k

C17_RomanRoundTrip ==
    dpc = "parsed" =>
        /\ roman_n \in 1..3999 => roman_parsed = <<roman_n>>
        /\ roman_parsed # <<>> <=>
               (roman_locals.remaining = <<>> /\ roman_locals.result > 0)
        /\ roman_parsed # <<>> => roman_parsed = <<roman_locals.result>>
        /\ roman_text \in {<<>>, <<"A", "B", "C">>, <<"1", "2", "3">>} => roman_parsed = <<>>

\* MCMXCIX parsed to 1999
C17_Witness ==
    /\ dpc = "parsed"
    /\ roman_n = 1999
    /\ roman_text = <<"M", "C", "M", "X", "C", "I", "X">>
    /\ roman_parsed = <<1999>>

(***************************************************************************)
(* Properties of the deblur stage                                          *)
(***************************************************************************)

\* The stage has returned Ok(result)
DeblurReturned == bpc = "done" /\ blur_exists

\* The image the stage forwards: the saved file of `process`, the image
\* itself of `process_in_place`
ForwardedImage == IF blur_output # <<>> THEN blur_output[1] ELSE blur_image

\* The Laplacian variance of the image handed over is at least the threshold
NotBlurry ==
    LET v == blur_result[1].before_metrics.laplacian_variance
    IN v.num >= blur_options.blur_threshold * v.den

\* C18: when auto_detect is true and the image is not blurry (Laplacian
\* variance >= threshold), the deblur stage forwards the image with every pixel
\* unchanged and reports processed = false.
C18_SharpImageForwardedUnchanged ==
    (DeblurReturned /\ blur_options.auto_detect /\ NotBlurry) =>
        /\ ForwardedImage = blur_original
        /\ blur_result[1].processed = FALSE
        /\ blur_result[1].after_metrics = <<>>

\* An image with one bright pixel inside, variance exactly at the default
\* threshold, handed to process_in_place and left as it was
C18_Witness ==
    /\ DeblurReturned
    /\ blur_output = <<>>
    /\ blur_options.auto_detect
    /\ blur_options.blur_threshold = DEFAULT_BLUR_THRESHOLD
    /\ blur_result[1].before_metrics.laplacian_variance.num
           = DEFAULT_BLUR_THRESHOLD * blur_result[1].before_metrics.laplacian_variance.den
    /\ blur_image = blur_original
    /\ blur_result[1].processed = FALSE

\* The other branch does change pixels
DeblurChangesBlurryImage ==
    /\ DeblurReturned
    /\ blur_result[1].processed
    /\ ForwardedImage # blur_original

(***************************************************************************)
(* Properties of marker removal                                            *)
(***************************************************************************)

MarkerRemoved == mpc = "done" /\ marker_options.preserve_text_edges

MarkerPixels == 1..Len(marker_original.data)

\* Pixel i was skipped: it is as it was and it is not counted
PixelSkipped(i) ==
    /\ marker_image.data[i] = marker_original.data[i]
    /\ i \notin marker_counted

\* C19 as the specification states it: with edge preservation on, every pixel
\* whose edge-map value is greater than or equal to edge_threshold is neither
\* modified nor counted as a marker pixel.
C19_EdgeAtOrAboveThresholdSkipped ==
    MarkerRemoved =>
        \A i \in MarkerPixels :
            marker_edges[1][i] >= marker_options.edge_threshold => PixelSkipped(i)

\* C19 amended: with edge preservation on, every pixel whose edge-map value
\* is strictly greater than edge_threshold is neither modified nor counted as
\* a marker pixel, whatever its colour, and the counted total is the number
\* of counted pixels.
C19_EdgeAboveThresholdSkipped ==
    MarkerRemoved =>
        /\ \A i \in MarkerPixels :
               marker_edges[1][i] > marker_options.edge_threshold => PixelSkipped(i)
        /\ marker_result[1].total_marker_pixels = Cardinality(marker_counted)

\* A yellow pixel beside a black one: its edge value is above the default
\* threshold, it is left yellow and it is not counted
C19_Witness ==
    /\ MarkerRemoved
    /\ marker_options.edge_threshold = EDGE_THRESHOLD
    /\ \E i \in MarkerPixels :
           /\ marker_original.data[i] = <<255, 255, 100>>
           /\ marker_edges[1][i] > EDGE_THRESHOLD
           /\ PixelSkipped(i)

\* A yellow pixel whose edge value equals the threshold is faded and counted
MarkerAtThresholdRemoved ==
    /\ MarkerRemoved
    /\ \E i \in MarkerPixels :
           /\ marker_edges[1][i] = marker_options.edge_threshold
           /\ marker_options.edge_threshold = EDGE_THRESHOLD
           /\ i \in marker_counted
           /\ marker_image.data[i] # marker_original.data[i]

(***************************************************************************)
(* Properties of the vertical writing detector                             *)
(***************************************************************************)

\* Both detections have returned for an image of non-zero width and height
BothDetected == vpc = "done" /\ vd_image.width > 0 /\ vd_image.height > 0

\* |V1 / (D1 + e) + V2 / (D2 + e) - 1| <= 1e-6 for the probabilities of the
\* two results, D being horizontal_score + vertical_score; the scores are in
\* thousandths, where e = 1e-9 is 1e-6 thousandths.  With
\* N0 = V1 D2 + V2 D1 - D1 D2 and N1 = V1 + V2 - D1 - D2 the difference is
\* (N0 + N1 e - e^2) / (D1 D2 + (D1 + D2) e + e^2).
SumIsOneWithinTolerance ==
    LET a == vd_result[1].vertical_score
        b == vd_result[1].horizontal_score + vd_result[1].vertical_score
        c == vd_rot_result[1].vertical_score
        d == vd_rot_result[1].horizontal_score + vd_rot_result[1].vertical_score
        N0 == a * d + c * b - b * d
        N1 == a + c - b - d
        X == N0 * 1000000 + N1
    IN IF N0 >= 5 \/ N0 <= -5 THEN FALSE
       ELSE IF X >= 1 THEN X <= b * d
       ELSE IF b + d = 0 THEN FALSE
       ELSE 0 - X <= b * d

\* C20 as the specification states it: for any grayscale image I with
\* non-zero width and height, vertical_probability(I) +
\* vertical_probability(rotate90(I)) is 1 within 1e-6.
C20_ProbabilitiesSumToOne ==
    BothDetected => SumIsOneWithinTolerance

\* The score of I rotated by 180 degrees is the score of I
ScoreKeptByHalfTurn ==
    vd_rot_result[1].vertical_score = vd_result[1].horizontal_score

\* C20 amended: for any grayscale image I with non-zero width and height
\* whose width is a multiple of block_count, the two probabilities sum to 1
\* within 1e-6 if the horizontal and the vertical score of I sum to at least
\* 0.001, and both probabilities are 0 if both scores are 0.
C20_SumToOneOnEvenBlocks ==
    (BothDetected /\ vd_image.width % vd_options.block_count = 0) =>
        /\ ScoreKeptByHalfTurn
        /\ vd_result[1].horizontal_score + vd_result[1].vertical_score >= 1
           => SumIsOneWithinTolerance
        /\ (vd_result[1].horizontal_score = 0 /\ vd_result[1].vertical_score = 0)
           => /\ vd_rot_result[1].vertical_score = 0
              /\ ~SumIsOneWithinTolerance

\* A page with one black pixel, its scores differing, the sum being 1
C20_Witness ==
    /\ BothDetected
    /\ vd_image.width % vd_options.block_count = 0
    /\ vd_result[1].horizontal_score # vd_result[1].vertical_score
    /\ vd_result[1].vertical_score > 0
    /\ SumIsOneWithinTolerance

\* A page all black: both scores and both probabilities are 0
BlackPageScoresZero ==
    /\ BothDetected
    /\ vd_image.width = 3 /\ vd_image.height = 3
    /\ \A i \in 1..9 : vd_image.data[i] = 0
    /\ vd_result[1].horizontal_score = 0 /\ vd_result[1].vertical_score = 0
    /\ vd_rot_result[1].vertical_score = 0


(***************************************************************************)
(* Properties of the batch queue                                           *)
(***************************************************************************)
BatchJobIds == {bq_batch[1].job_ids[i] : i \in 1..Len(bq_batch[1].job_ids)}

\* Jobs of the batch that the queue held with one of the statuses S when
\* cancel was called
BatchJobsThatWere(S) == {id \in BatchJobIds \cap DOMAIN bq_entry : bq_entry[id] \in S}

\* C24: when BatchQueue::cancel returns Some((cancelled, completed)) the batch
\* status is Cancelled, every job of the batch that was Queued or Processing
\* has been cancelled, `cancelled` is the number of such jobs and `completed`
\* the number of jobs already Completed.
C24_BatchCancelCancelsJobs ==
    (bq_pc = "returned" /\ bq_result # <<>>) =>
        /\ bq_batch[1].status = "Cancelled"
        /\ \A id \in BatchJobsThatWere({"Queued", "Processing"}) :
               bq_jobs[id] = "Cancelled"
        /\ bq_result[1][1] = Cardinality(BatchJobsThatWere({"Queued", "Processing"}))
        /\ bq_result[1][2] = Cardinality(BatchJobsThatWere({"Completed"}))

\* A batch of a Processing, a Completed and a Queued job: two cancelled, one
\* completed
C24_Witness ==
    /\ bq_pc = "returned"
    /\ bq_result = << <<2, 1>> >>
    /\ bq_batch[1].status = "Cancelled"
    /\ bq_entry = <<"Processing", "Completed", "Queued">>
    /\ bq_jobs = <<"Cancelled", "Completed", "Cancelled">>

\* cancel touches no other job: Failed and Cancelled jobs and jobs of no
\* batch keep their status, an unknown batch id gives None and changes nothing
BatchCancelLeavesOtherJobs ==
    bq_pc = "returned" =>
        /\ DOMAIN bq_jobs = DOMAIN bq_entry
        /\ \A id \in DOMAIN bq_jobs :
               bq_jobs[id] # bq_entry[id] =>
                   bq_batch # <<>> /\ id \in BatchJobsThatWere({"Queued", "Processing"})
        /\ bq_batch = <<>> => bq_result = <<>>

\* A job id of the batch that the queue does not know is passed over
BatchWithUnknownJobCancelled ==
    /\ bq_pc = "returned"
    /\ bq_result = << <<1, 0>> >>
    /\ Len(bq_batch[1].job_ids) = 2
    /\ DOMAIN bq_jobs = {2}

(***************************************************************************)
(* Properties of the metrics collector                                     *)
(***************************************************************************)
\* Calls that have executed their first atomic operation at least
CallsBegun(method) ==
    mt_calls[method]
    + Cardinality({t \in MetricThreads : mt_threads[t].call = method})

\* C25: MetricsCollector loses no update under concurrent use: for any
\* interleaving of record_job_started, record_job_completed and
\* record_job_failed calls from several threads, once the calls have returned
\* total_jobs is the number of starts, completed_jobs and failed_jobs the
\* numbers of completions and failures, and active_jobs is starts minus
\* completions minus failures, in the counters and in the statistics read.
C25_NoLostUpdate ==
    /\ (\A t \in MetricThreads : mt_threads[t].call = "none") =>
           /\ mt_counters.total_jobs = mt_calls.started
           /\ mt_counters.completed_jobs = mt_calls.completed
           /\ mt_counters.failed_jobs = mt_calls.failed
           /\ mt_counters.active_jobs
                  = mt_calls.started - mt_calls.completed - mt_calls.failed
    /\ (\A t \in MetricThreads : mt_threads[t].call = "none") =>
           LET stats == get_job_statistics(mt_counters, 0)
           IN /\ stats.total_jobs = mt_calls.started
              /\ stats.completed_jobs = mt_calls.completed
              /\ stats.failed_jobs = mt_calls.failed
              /\ stats.active_jobs
                     = mt_calls.started - mt_calls.completed - mt_calls.failed

\* Two threads, two jobs each, three completed and one failed, all calls
\* returned
C25_Witness ==
    /\ \A t \in MetricThreads : mt_threads[t].call = "none" /\ mt_threads[t].jobs = 2
    /\ mt_calls = [started |-> 4, completed |-> 3, failed |-> 1]
    /\ mt_counters.total_jobs = 4
    /\ mt_counters.active_jobs = 0
    /\ get_job_statistics(mt_counters, 0).completed_jobs = 3
    /\ get_job_statistics(mt_counters, 0).failed_jobs = 1
    /\ get_job_statistics(mt_counters, 0).total_pages_processed = 3

\* While calls are under way no counter is behind the calls that have returned
\* or ahead of those that have begun, and active_jobs never goes below zero:
\* no fetch_sub wraps the u64
MetricsCountersWithinCalls ==
    /\ mt_counters.total_jobs >= mt_calls.started
    /\ mt_counters.total_jobs <= CallsBegun("started")
    /\ mt_counters.completed_jobs >= mt_calls.completed
    /\ mt_counters.completed_jobs <= CallsBegun("completed")
    /\ mt_counters.failed_jobs >= mt_calls.failed
    /\ mt_counters.failed_jobs <= CallsBegun("failed")
    /\ mt_counters.active_jobs >= 0

\* Both threads inside record_job_started at once, between their two steps
MetricsCallsOverlap ==
    \A t \in MetricThreads :
        mt_threads[t].call = "started" /\ Len(mt_threads[t].todo) = 1

(***************************************************************************)
(* Properties of the job worker                                            *)
(***************************************************************************)
\* C26: cancellation is final for a job handled by a worker: a job that was
\* cancelled, before a worker picks it up or while its pipeline runs, is
\* never afterwards Processing or Completed.
C26_CancellationFinal ==
    \A id \in jw_cancelled : jw_jobs[id] \notin {"Processing", "Completed"}

\* A job cancelled while still waiting in the channel is Processing
CancelledBeforePickupProcessing ==
    \E id \in jw_cancelled :
        /\ jw_pc = "started"
        /\ jw_job = <<id>>
        /\ jw_jobs[id] = "Processing"

\* A cancelled job is not taken for another run once the worker is done
\* with it, and a job the check finds Cancelled stays Cancelled
CancelledSeenAtCheckStays ==
    [][\A id \in DOMAIN jw_jobs :
          (jw_pc = "started" /\ jw_job = <<id>> /\ jw_jobs[id] = "Cancelled"
           /\ jw_pc' = "recv")
          => jw_jobs'[id] = "Cancelled"]_vars

(***************************************************************************)
(* Properties of the shutdown coordinator                                  *)
(***************************************************************************)
\* C28: wait_for_shutdown eventually returns whenever shutdown is triggered
\* on the coordinator or any clone, in either order: also when
\* trigger_shutdown / trigger_immediate was called before wait_for_shutdown.
C28_WaitReturnsOnceTriggered ==
    \A t \in Waiters :
        (sc_waiters[t].pc = "waiting" /\ sc_is_shutting_down)
            ~> (sc_waiters[t].pc = "returned")

\* A wait_for_shutdown that began after the only trigger calls is waiting
\* with nothing to receive
WaitingAfterTrigger ==
    \E t \in Waiters :
        /\ sc_waiters[t].pc = "waiting"
        /\ sc_is_shutting_down
        /\ sc_triggers = MaxTriggers
        /\ sc_waiters[t].next > Len(sc_values)

\* A trigger that comes while wait_for_shutdown is waiting makes it return,
\* with the first signal sent since it subscribed
TriggerWhileWaitingReturns ==
    \A t \in Waiters :
        (sc_waiters[t].pc = "waiting" /\ sc_waiters[t].next <= Len(sc_values))
            ~> (/\ sc_waiters[t].pc = "returned"
                /\ sc_waiters[t].signal = <<sc_values[sc_waiters[t].next]>>)

(***************************************************************************)
(* Properties of shadow detection                                          *)
(***************************************************************************)
\* C29: for every image of width >= 1 and height >= 1 and every edge, shadow
\* detection samples only in-bounds pixel coordinates, with no unsigned
\* underflow and no division by zero, also for images narrower than the
\* 10-pixel minimum sample_width.
C29_SamplesInBounds ==
    /\ sh_pc # "panicked"
    /\ \A k \in DOMAIN sh_sample :
           /\ sh_sample[k].kind = "read"
           /\ InImage(sh_image, sh_sample[k].x, sh_sample[k].y)

\* A 5 x 1 image, Left edge: the read of column 5 is outside the image
NarrowImageLeftPanics ==
    /\ sh_image = [width |-> 5, height |-> 1]
    /\ sh_edge = "Left"
    /\ sh_i = 5
    /\ sh_pc = "panicked"
    /\ sh_sample = <<[kind |-> "out_of_bounds"]>>

\* A 5 x 1 image, Right edge: 5 - 1 - 5 is below zero
NarrowImageRightPanics ==
    /\ sh_image = [width |-> 5, height |-> 1]
    /\ sh_edge = "Right"
    /\ sh_i = 5
    /\ sh_pc = "panicked"
    /\ sh_sample = <<[kind |-> "subtract_with_overflow"]>>

\* Where the image is at least sample_width wide, and on the Top and Bottom
\* edges of any image, every read is inside the image; no division by zero
\* occurs for any image
ShadowSamplesInBoundsWhenWide ==
    /\ (sh_pc # "input" /\ (sh_sample_width <= sh_image.width
                             \/ sh_edge \in {"Top", "Bottom"}))
           => C29_SamplesInBounds
    /\ \A k \in DOMAIN sh_sample : sh_sample[k].kind # "division_by_zero"

\* The profile of a 12 x 102 image is complete: 10 columns of 50 rows, the
\* last row read being 98
WideImageProfileComplete ==
    /\ sh_image = [width |-> 12, height |-> 102]
    /\ sh_edge = "Right"
    /\ sh_pc = "returned"
    /\ sh_sample = <<[kind |-> "read", x |-> 2, y |-> 98]>>

====
